---- MODULE Spec2Model ----
(***************************************************************************)
(* Model of the control plugin's system-identification programs:           *)
(*   identify_params.py  (step detection, model selection, fitting,        *)
(*                        acceptance test, fallback chain, output file)    *)
(*   validate_model.py   (independent validation report and fallback       *)
(*                        suggestion)                                      *)
(*   calculate_gains.py  (gain synthesis from an identified-model file)    *)
(*   select_model.py     (model catalogue and selection output)            *)
(*                                                                         *)
(* Units.  Real quantities are scaled integers:                            *)
(*   target values, R^2, parameters, interval ends : hundredths            *)
(*   overall confidence                            : 1/12000               *)
(*   validator parameters and PHYSICS_LIMITS       : millionths            *)
(*   calculate_gains.py quantities                 : exact rationals <<n,d>>*)
(*   gains written to the output file (round(x,6)) : millionths            *)
(* Each behaviour runs one program (prog); the variables of the other      *)
(* programs keep their initial values.                                     *)
(***************************************************************************)
EXTENDS Integers, Sequences, FiniteSets, TLC

VARIABLES
    prog,          \* which program this behaviour runs
    pc,            \* position inside identify_params.main
    telemetry,     \* the loaded telemetry file: [has_data, target]
    step_idx,      \* result of find_step_response (-1 before / none)
    step_size,
    mechanism,     \* --mechanism argument ("" until read)
    no_fallback,   \* --no-fallback argument (FALSE until main reads it)
    model_type,    \* ModelType currently selected / being attempted
    model,         \* IdentifiedModel held by main (NoModel if none)
    attempts,      \* history: <<[type, outcome]>> of identify_model calls
    exit_status,   \* -1 while running, else the return value of main
    file_written,  \* identified-model output file was written
    output_file,   \* its content
    vmodel,        \* accept harness: the IdentifiedModel given to validate_model
    vresult,       \* accept harness: "pending" | "accepted" | "rejected"
    vin,           \* validate_model.py: its inputs [model, telemetry, cross_validate]
    vstatus,       \* validate_model.py: "pending" | "report" | "raised"
    report,        \* validate_model.py: the ValidationReport returned
    sin,           \* selection harness: the arguments of select_model_auto
    sout,          \* selection harness: the ModelType returned (None before)
    cin,           \* scoring harness: the arguments of assess_confidence
    cout,          \* scoring harness: the confidence returned (-1 before)
    gin,           \* calculate_gains.py: model file and command-line arguments
    gstatus,       \* calculate_gains.py: "pending" | "written" | "exit1" | "raised"
    gout,          \* calculate_gains.py: the output file written
    selected,      \* select_model.py: [model (a MODEL_LIBRARY key), mechanism]
    selection_output,  \* select_model.py: what generate_model_output returned
    fitin,         \* fit set-up: [order, pos_initial, final_value, omega_n_guess]
    fitout,        \* fit set-up: the arguments given to curve_fit and its outcome
    orch,          \* TuningOrchestrator: the fields of the object
    opc,           \* TuningOrchestrator.run: the phase to run next
    run_result,    \* -1 while run is active, else its return value
    files,         \* mechanism_config.json and tuning_results.json
    phases,        \* history: <<[name, ok, inputs]>> of the phases run
    loop_log       \* history: one record per iteration of tuning_loop

vars == <<prog, pc, telemetry, step_idx, step_size, mechanism, no_fallback,
          model_type,
          model, attempts, exit_status, file_written, output_file,
          vmodel, vresult, vin, vstatus, report,
          sin, sout, cin, cout, gin, gstatus, gout,
          selected, selection_output,
          fitin, fitout, orch, opc, run_result, files, phases, loop_log>>

idVars == <<pc, telemetry, step_idx, step_size, mechanism, no_fallback,
            model_type,
            model, attempts, exit_status, file_written, output_file>>

accVars == <<vmodel, vresult>>

valVars == <<vin, vstatus, report>>

selVars == <<sin, sout>>

scoreVars == <<cin, cout>>

gainVars == <<gin, gstatus, gout>>

libVars == <<selected, selection_output>>

fitVars == <<fitin, fitout>>

tuneVars == <<orch, opc, run_result, files, phases, loop_log>>

moreVars == <<fitVars, tuneVars>>

otherVars == <<selVars, scoreVars, gainVars, libVars, moreVars>>

-----------------------------------------------------------------------------
(* Bounds of the model *)

MaxLen == 3                     \* longest telemetry data array

TargetVals == {0, 1000, 2100}   \* target samples: 0, 10.0, 21.0

-----------------------------------------------------------------------------
(* Small helpers *)

Abs(x) == IF x < 0 THEN 0 - x ELSE x

Max2(a, b) == IF a >= b THEN a ELSE b

Min2(a, b) == IF a <= b THEN a ELSE b

Range(s) == {s[i] : i \in 1..Len(s)}

SeqsUpTo(S, n) == UNION {[1..k -> S] : k \in 0..n}

-----------------------------------------------------------------------------
(* Exact rational arithmetic for Python's float expressions: <<n, d>>, d > 0, *)
(* in lowest terms                                                            *)

RECURSIVE GCD(_, _)
GCD(a, b) == IF b = 0 THEN a ELSE GCD(b, a % b)

Rat(n, d) ==
    LET sn == IF d < 0 THEN -n ELSE n
        sd == Abs(d)
        g == GCD(Abs(sn), sd)
    IN  <<sn \div g, sd \div g>>

RInt(n) == <<n, 1>>

\* sums and comparisons over the least common denominator
RAdd(x, y) ==
    LET g == GCD(x[2], y[2])
    IN  Rat(x[1] * (y[2] \div g) + y[1] * (x[2] \div g), x[2] * (y[2] \div g))

RSub(x, y) == RAdd(x, <<-y[1], y[2]>>)

RMul(x, y) ==
    LET g1 == GCD(Abs(x[1]), y[2])
        g2 == GCD(Abs(y[1]), x[2])
    IN  IF x[1] = 0 \/ y[1] = 0 THEN <<0, 1>>
        ELSE <<(x[1] \div g1) * (y[1] \div g2), (x[2] \div g2) * (y[2] \div g1)>>

\* x / y for y # 0 (Python raises ZeroDivisionError for y = 0)
RDiv(x, y) ==
    RMul(x, IF y[1] < 0 THEN <<-y[2], -y[1]>> ELSE <<y[2], y[1]>>)

RLess(x, y) ==
    LET g == GCD(x[2], y[2])
    IN  IF x[1] <= 0 /\ y[1] > 0 THEN TRUE
        ELSE IF x[1] >= 0 /\ y[1] <= 0 THEN FALSE
        ELSE x[1] * (y[2] \div g) < y[1] * (x[2] \div g)

RLeq(x, y) == ~RLess(y, x)

RMax(x, y) == IF RLess(x, y) THEN y ELSE x

RMin(x, y) == IF RLess(y, x) THEN y ELSE x

RZero(x) == x[1] = 0

\* the first k decimal digits of r / d (0 <= r < d), as an integer, and the
\* remainder left after them
RECURSIVE DecimalDigits(_, _, _)
DecimalDigits(r, d, k) ==
    IF k = 0 THEN [digits |-> 0, rest |-> r]
    ELSE LET t == DecimalDigits(r, d, k - 1)
         IN  [digits |-> t.digits * 10 + (t.rest * 10) \div d,
              rest |-> (t.rest * 10) % d]

\* round(x, 6) in millionths: nearest, ties to even
round6(x) ==
    LET a == Abs(x[1])
        whole == a \div x[2]
        t == DecimalDigits(a % x[2], x[2], 6)
        low == whole * 1000000 + t.digits
        up == IF 2 * t.rest > x[2] THEN 1
              ELSE IF 2 * t.rest = x[2] /\ low % 2 = 1 THEN 1 ELSE 0
    IN  IF x[1] < 0 THEN -(low + up) ELSE low + up

-----------------------------------------------------------------------------
(* identify_params.py : ModelType *)

FIRST_ORDER == "first-order"
FIRST_ORDER_GRAVITY == "first-order-gravity"
SECOND_ORDER == "second-order"
SECOND_ORDER_GRAVITY == "second-order-gravity"
ANGLE_DEPENDENT == "angle-dependent"
FRICTION == "friction"
VARIABLE_INERTIA == "variable-inertia"

ModelType == {FIRST_ORDER, FIRST_ORDER_GRAVITY, SECOND_ORDER,
              SECOND_ORDER_GRAVITY, ANGLE_DEPENDENT, FRICTION,
              VARIABLE_INERTIA}

None == "None"

\* param_names chosen by identify_model for each ModelType
param_names(mt) ==
    CASE mt = FIRST_ORDER          -> <<"K", "tau">>
      [] mt = FIRST_ORDER_GRAVITY  -> <<"K", "tau", "kg">>
      [] mt = SECOND_ORDER         -> <<"K", "omega_n", "zeta">>
      [] mt = SECOND_ORDER_GRAVITY -> <<"K", "omega_n", "zeta", "kg">>
      [] mt = ANGLE_DEPENDENT      -> <<"K", "tau", "kg">>
      [] mt = FRICTION             -> <<"J", "b", "friction", "kg">>
      [] mt = VARIABLE_INERTIA     -> <<"J_base", "J_slope", "b", "kg">>

NoModel == [model_type |-> None, parameters |-> <<>>,
            confidence_intervals |-> <<>>,
            fit_quality |-> [r_squared |-> 0, overall_confidence |-> 0],
            mechanism |-> ""]

-----------------------------------------------------------------------------
(* identify_params.py : data loading and step detection *)

\* the samples of a telemetry file: `target` followed by `hold` more samples
\* that repeat its last value (the target held after the last change)
HoldVals == {0, 8}

Telemetries ==
    {[has_data |-> FALSE, target |-> <<>>, hold |-> 0]} \cup
    {[has_data |-> TRUE, target |-> t, hold |-> h] :
        t \in SeqsUpTo(TargetVals, MaxLen), h \in HoldVals}

\* np.diff(target): element i (0-based) is target[i+1] - target[i]
target_changes(target) ==
    [i \in 1..(IF Len(target) = 0 THEN 0 ELSE Len(target) - 1) |->
        target[i + 1] - target[i]]

\* faulty variant: a change equal to the threshold counts as a step
IsStep_inclusive(change, min_step_size) == Abs(change) >= min_step_size

\* the comparison np.abs(target_changes) > min_step_size
IsStep(change, min_step_size) == Abs(change) > min_step_size

\* step_indices = np.where(...)[0], scanned from position i (1-based);
\* yields the first position at or after i that is a step, 0 if there is none
RECURSIVE first_step_from(_, _, _)
first_step_from(changes, i, min_step_size) ==
    IF i > Len(changes) THEN 0
    ELSE IF IsStep(changes[i], min_step_size) THEN i
    ELSE first_step_from(changes, i + 1, min_step_size)

\* faulty variant: the magnitude of the change is returned instead of the signed change
find_step_response_unsigned(target, min_step_size) ==
    LET changes == target_changes(target)
        p == first_step_from(changes, 1, min_step_size)
    IN  IF p = 0
        THEN [raised |-> TRUE, step_idx |-> -1, step_size |-> 0]
        ELSE [raised |-> FALSE, step_idx |-> p - 1, step_size |-> Abs(changes[p])]

\* find_step_response: [raised, step_idx (0-based), step_size]
find_step_response(target, min_step_size) ==
    LET changes == target_changes(target)
        p == first_step_from(changes, 1, min_step_size)
    IN  IF p = 0
        THEN [raised |-> TRUE, step_idx |-> -1, step_size |-> 0]
        ELSE [raised |-> FALSE, step_idx |-> p - 1, step_size |-> changes[p]]

-----------------------------------------------------------------------------
(* identify_params.py : model selection *)

Mechanisms == {"elevator", "arm", "flywheel", "turret"}

\* What select_model_auto reads of the series: len(pos[step_idx:]), np.max and
\* np.min of it, target[step_idx + 1] (hundredths) and np.std(np.diff(pos))
\* (hundredths).
\* detect_overshoot: percent, as an exact rational
detect_overshoot(series, step_size_) ==
    IF series.pos_len < 10 THEN RInt(0)
    ELSE LET overshoot ==
                 IF step_size_ > 0
                 THEN RMul(Rat(series.max_pos - series.target, Abs(step_size_)),
                           RInt(100))
                 ELSE RMul(Rat(series.target - series.min_pos, Abs(step_size_)),
                           RInt(100))
         IN  RMax(RInt(0), overshoot)

\* estimate_noise_level: the standard deviation of the position differences
estimate_noise_level(series) == series.noise_std

\* faulty variant: an overshoot of exactly 5% counts as overshoot
select_model_auto_inclusive(series, mech, step_size_) ==
    LET overshoot == detect_overshoot(series, step_size_)
        has_overshoot == RLeq(RInt(5), overshoot)
        noisy_data == estimate_noise_level(series) > 100
    IN  IF mech \in {"flywheel", "turret"}
        THEN IF has_overshoot /\ ~noisy_data THEN SECOND_ORDER ELSE FIRST_ORDER
        ELSE IF has_overshoot /\ ~noisy_data
             THEN SECOND_ORDER_GRAVITY ELSE FIRST_ORDER_GRAVITY

select_model_auto(series, mech, step_size_) ==
    LET overshoot == detect_overshoot(series, step_size_)
        has_overshoot == RLess(RInt(5), overshoot)
        has_gravity == mech \in {"elevator", "arm"}
        noisy_data == estimate_noise_level(series) > 100
    IN  IF mech \in {"flywheel", "turret"}
        THEN IF has_overshoot /\ ~noisy_data THEN SECOND_ORDER ELSE FIRST_ORDER
        ELSE IF mech \in {"elevator", "arm"}
        THEN IF has_overshoot /\ ~noisy_data
             THEN SECOND_ORDER_GRAVITY ELSE FIRST_ORDER_GRAVITY
        ELSE IF has_gravity THEN FIRST_ORDER_GRAVITY ELSE FIRST_ORDER

\* distances of the extreme position from the target after a step of the
\* given size: none, exactly 5%, just above 5%, 15%
PeakVals(step_size_) ==
    {0, Abs(step_size_) \div 20, Abs(step_size_) \div 20 + 1,
     (Abs(step_size_) * 15) \div 100}

NoiseVals == {100, 101}

\* the series statistics of a response with pos_len samples from the step on
SeriesStats(pos_len, target, step_size_) ==
    {[pos_len |-> pos_len, target |-> target, max_pos |-> target + up,
      min_pos |-> target - down, noise_std |-> noise] :
        up \in PeakVals(step_size_), down \in PeakVals(step_size_),
        noise \in NoiseVals}

\* arguments of select_model_auto: steps up and down, 9 or 10 samples
SelectInputs ==
    UNION {[mechanism : Mechanisms, step_size : {st},
            series : SeriesStats(n, 2100, st)] :
              st \in {1100, -2100}, n \in {9, 10}}

NoSelectInput ==
    [mechanism |-> "", step_size |-> 0,
     series |-> [pos_len |-> 0, target |-> 0, max_pos |-> 0, min_pos |-> 0,
                 noise_std |-> 0]]

\* select_model_interactive, given the two answers typed by the user
select_model_interactive(mech, oscillates, use_gravity) ==
    LET needs_gravity == mech \in {"elevator", "arm"}
        has_gravity == IF needs_gravity THEN use_gravity = "yes" ELSE FALSE
    IN  IF oscillates = "yes"
        THEN IF has_gravity THEN SECOND_ORDER_GRAVITY ELSE SECOND_ORDER
        ELSE IF has_gravity THEN FIRST_ORDER_GRAVITY ELSE FIRST_ORDER

-----------------------------------------------------------------------------
(* identify_params.py : what a converged fit can return *)

\* values the bounded solver can return for each parameter (hundredths);
\* tau in [0.01, 10], omega_n in [0.1, 20], zeta in [0.05, 1.0]
ParamChoices(name) ==
    CASE name = "K"        -> {100}
      [] name = "tau"      -> {1, 100}
      [] name = "omega_n"  -> {100}
      [] name = "zeta"     -> {5, 100}
      [] name = "kg"       -> {-100, 0, 100}
      [] name = "J"        -> {100}
      [] name = "b"        -> {0, 100}
      [] name = "friction" -> {0}
      [] name = "J_base"   -> {100}
      [] name = "J_slope"  -> {-100, 100}

AllParamVals == {-100, 0, 1, 5, 100}

\* z_score * sqrt(diag(cov)), one value for all fitted parameters
FitMargins == {0, 60, 120}

\* R^2 of the fit as calculate_fit_quality computes it from the residuals
FitRSquared == {84, 85, 95}

FitResults(mt) ==
    [parameters : {f \in [Range(param_names(mt)) -> AllParamVals] :
                      \A n \in Range(param_names(mt)) : f[n] \in ParamChoices(n)},
     margin : FitMargins,
     r_squared : FitRSquared]

-----------------------------------------------------------------------------
(* identify_params.py : confidence intervals and overall confidence *)

RECURSIVE SumOver(_, _)
SumOver(S, f) ==
    IF S = {} THEN 0
    ELSE LET x == CHOOSE y \in S : TRUE IN f[x] + SumOver(S \ {x}, f)

\* calculate_confidence_intervals for one parameter: value -/+ margin
calculate_confidence_intervals(value, margin) == <<value - margin, value + margin>>

\* the heuristic interval identify_model gives kg: (kg * 0.9, kg * 1.1)
kg_confidence_interval(kg_val) == <<(kg_val * 9) \div 10, (kg_val * 11) \div 10>>

\* number of violated bounds counted by assess_confidence's physics factor
physics_violations(params) ==
    (IF "tau" \in DOMAIN params /\ params["tau"] <= 0 THEN 1 ELSE 0) +
    (IF "omega_n" \in DOMAIN params /\ params["omega_n"] <= 0 THEN 1 ELSE 0) +
    (IF "zeta" \in DOMAIN params /\ (params["zeta"] < 0 \/ params["zeta"] > 200)
     THEN 1 ELSE 0)

\* faulty variant: the interval score is not capped at 1
assess_confidence_uncapped(fit_quality, confidence_intervals, params) ==
    LET r_squared_score == Max2(0, Min2(25, fit_quality.r_squared - 70))
        used == {n \in DOMAIN params : Abs(params[n]) > 0}
        relative_width ==
            [n \in used |->
                ((confidence_intervals[n][2] - confidence_intervals[n][1]) * 100)
                    \div (2 * Abs(params[n]))]
        ci_score ==
            IF used # {}
            THEN Max2(0, 1200 - (12 \div Cardinality(used)) * SumOver(used, relative_width))
            ELSE 600
        v == physics_violations(params)
        physics_score == IF v = 0 THEN 8 ELSE IF v = 1 THEN 4 ELSE IF v = 2 THEN 2 ELSE 1
    IN  240 * r_squared_score + 3 * ci_score + 300 * physics_score

\* assess_confidence, in units of 1/12000.
\*   r_squared_score = clamp((r2 - 0.7) / 0.25)       in 1/25
\*   ci_score        = clamp(1 - mean relative width) in 1/1200, 0.5 if no width
\*   physics_score   = 0.5 ^ violations               in 1/8
\* The source pairs parameters and intervals by position; both dicts list the
\* names in the same order, so the pairing is by name.
assess_confidence(fit_quality, confidence_intervals, params) ==
    LET r_squared_score == Max2(0, Min2(25, fit_quality.r_squared - 70))
        used == {n \in DOMAIN params : Abs(params[n]) > 0}
        relative_width ==
            [n \in used |->
                ((confidence_intervals[n][2] - confidence_intervals[n][1]) * 100)
                    \div (2 * Abs(params[n]))]
        ci_score ==
            IF used # {}
            THEN Max2(0, Min2(1200,
                     1200 - (12 \div Cardinality(used)) * SumOver(used, relative_width)))
            ELSE 600
        v == physics_violations(params)
        physics_score == IF v = 0 THEN 8 ELSE IF v = 1 THEN 4 ELSE IF v = 2 THEN 2 ELSE 1
    IN  240 * r_squared_score + 3 * ci_score + 300 * physics_score

\* identify_model after the fit for model_type returned `result`
identify_model(mt, result, mech) ==
    LET names == Range(param_names(mt))
        parameters == [n \in names |-> result.parameters[n]]
        confidence_intervals ==
            [n \in names |->
                IF n = "kg" THEN kg_confidence_interval(parameters[n])
                ELSE calculate_confidence_intervals(parameters[n], result.margin)]
        fit_quality == [r_squared |-> result.r_squared]
        overall_confidence ==
            assess_confidence(fit_quality, confidence_intervals, parameters)
    IN  [model_type |-> mt,
         parameters |-> parameters,
         confidence_intervals |-> confidence_intervals,
         fit_quality |-> [r_squared |-> result.r_squared,
                          overall_confidence |-> overall_confidence],
         mechanism |-> mech]

-----------------------------------------------------------------------------
(* identify_params.py : acceptance test and fallback chain *)

\* faulty variant: the upper bound on zeta is not tested
validate_model_no_zeta_upper(m, threshold_r_squared) ==
    LET params == m.parameters IN
    IF m.fit_quality.r_squared < threshold_r_squared THEN FALSE
    ELSE IF m.fit_quality.overall_confidence < 8400 THEN FALSE
    ELSE IF "tau" \in DOMAIN params /\ params["tau"] <= 0 THEN FALSE
    ELSE IF "omega_n" \in DOMAIN params /\ params["omega_n"] <= 0 THEN FALSE
    ELSE IF "zeta" \in DOMAIN params /\ params["zeta"] < 0 THEN FALSE
    ELSE TRUE

\* validate_model(model, threshold_r_squared): the chain's acceptance test
validate_model(m, threshold_r_squared) ==
    LET params == m.parameters IN
    IF m.fit_quality.r_squared < threshold_r_squared THEN FALSE
    ELSE IF m.fit_quality.overall_confidence < 8400 THEN FALSE
    ELSE IF "tau" \in DOMAIN params /\ params["tau"] <= 0 THEN FALSE
    ELSE IF "omega_n" \in DOMAIN params /\ params["omega_n"] <= 0 THEN FALSE
    ELSE IF "zeta" \in DOMAIN params /\ (params["zeta"] < 0 \/ params["zeta"] > 200)
         THEN FALSE
    ELSE TRUE

\* faulty variant: first_order falls back to first_order_gravity (a cycle)
fallback_map_cyclic ==
    [mt \in ModelType |->
        CASE mt = SECOND_ORDER_GRAVITY -> FIRST_ORDER_GRAVITY
          [] mt = SECOND_ORDER         -> FIRST_ORDER
          [] mt = ANGLE_DEPENDENT      -> FIRST_ORDER_GRAVITY
          [] mt = FRICTION             -> FIRST_ORDER_GRAVITY
          [] mt = VARIABLE_INERTIA     -> FIRST_ORDER_GRAVITY
          [] mt = FIRST_ORDER_GRAVITY  -> FIRST_ORDER
          [] mt = FIRST_ORDER          -> FIRST_ORDER_GRAVITY]

\* faulty variant: second_order falls back to first_order_gravity
fallback_map_second_order_to_gravity ==
    [mt \in ModelType |->
        CASE mt = SECOND_ORDER_GRAVITY -> FIRST_ORDER_GRAVITY
          [] mt = SECOND_ORDER         -> FIRST_ORDER_GRAVITY
          [] mt = ANGLE_DEPENDENT      -> FIRST_ORDER_GRAVITY
          [] mt = FRICTION             -> FIRST_ORDER_GRAVITY
          [] mt = VARIABLE_INERTIA     -> FIRST_ORDER_GRAVITY
          [] mt = FIRST_ORDER_GRAVITY  -> FIRST_ORDER
          [] mt = FIRST_ORDER          -> None]

\* faulty variant: angle_dependent falls straight back to first_order
fallback_map_angle_to_first_order ==
    [mt \in ModelType |->
        CASE mt = SECOND_ORDER_GRAVITY -> FIRST_ORDER_GRAVITY
          [] mt = SECOND_ORDER         -> FIRST_ORDER
          [] mt = ANGLE_DEPENDENT      -> FIRST_ORDER
          [] mt = FRICTION             -> FIRST_ORDER_GRAVITY
          [] mt = VARIABLE_INERTIA     -> FIRST_ORDER_GRAVITY
          [] mt = FIRST_ORDER_GRAVITY  -> FIRST_ORDER
          [] mt = FIRST_ORDER          -> None]

\* fallback_map of try_with_fallback
fallback_map ==
    [mt \in ModelType |->
        CASE mt = SECOND_ORDER_GRAVITY -> FIRST_ORDER_GRAVITY
          [] mt = SECOND_ORDER         -> FIRST_ORDER
          [] mt = ANGLE_DEPENDENT      -> FIRST_ORDER_GRAVITY
          [] mt = FRICTION             -> FIRST_ORDER_GRAVITY
          [] mt = VARIABLE_INERTIA     -> FIRST_ORDER_GRAVITY
          [] mt = FIRST_ORDER_GRAVITY  -> FIRST_ORDER
          [] mt = FIRST_ORDER          -> None]

DEFAULT_MIN_STEP_SIZE == 1000      \* min_step_size = 10.0

DEFAULT_THRESHOLD_R_SQUARED == 85  \* threshold_r_squared = 0.85

-----------------------------------------------------------------------------
(* identify_params.py : main *)

Exit(status) ==
    /\ pc' = "done"
    /\ exit_status' = status

\* load_telemetry and extract_time_series, inside main's first try block
LoadTelemetry ==
    /\ prog = "identify" /\ pc = "load"
    /\ IF ~telemetry.has_data \/ Len(telemetry.target) = 0
       THEN Exit(1)
       ELSE pc' = "find_step" /\ UNCHANGED exit_status
    /\ UNCHANGED <<prog, telemetry, step_idx, step_size, mechanism, no_fallback,
                   model_type, model, attempts, file_written, output_file,
                   accVars, valVars, otherVars>>

\* find_step_response, inside main's second try block
FindStep ==
    /\ prog = "identify" /\ pc = "find_step"
    /\ LET r == find_step_response(telemetry.target, DEFAULT_MIN_STEP_SIZE) IN
       IF r.raised
       THEN Exit(1) /\ UNCHANGED <<step_idx, step_size>>
       ELSE /\ step_idx' = r.step_idx
            /\ step_size' = r.step_size
            /\ pc' = "select"
            /\ UNCHANGED exit_status
    /\ UNCHANGED <<prog, telemetry, mechanism, no_fallback, model_type, model,
                   attempts, file_written, output_file, accVars, valVars, otherVars>>

\* --auto-select
SelectAuto ==
    /\ prog = "identify" /\ pc = "select"
    /\ \E mech \in Mechanisms,
          series \in SeriesStats(Len(telemetry.target) + telemetry.hold - step_idx,
                                 telemetry.target[step_idx + 2], step_size) :
          /\ mechanism' = mech
          /\ model_type' = select_model_auto(series, mech, step_size)
    /\ pc' = "identify"
    /\ UNCHANGED <<prog, telemetry, step_idx, step_size, no_fallback, model,
                   attempts, exit_status, file_written, output_file,
                   accVars, valVars, otherVars>>

\* --interactive
SelectInteractive ==
    /\ prog = "identify" /\ pc = "select"
    /\ \E mech \in Mechanisms, oscillates \in {"yes", "no", "unknown"},
          use_gravity \in {"yes", "no"} :
          /\ mechanism' = mech
          /\ model_type' = select_model_interactive(mech, oscillates, use_gravity)
    /\ pc' = "identify"
    /\ UNCHANGED <<prog, telemetry, step_idx, step_size, no_fallback, model,
                   attempts, exit_status, file_written, output_file,
                   accVars, valVars, otherVars>>

\* --model <name>
SelectExplicit ==
    /\ prog = "identify" /\ pc = "select"
    /\ \E mech \in Mechanisms, mt \in ModelType :
          /\ mechanism' = mech
          /\ model_type' = mt
    /\ pc' = "identify"
    /\ UNCHANGED <<prog, telemetry, step_idx, step_size, no_fallback, model,
                   attempts, exit_status, file_written, output_file,
                   accVars, valVars, otherVars>>

\* --no-fallback branch of main: one identify_model call, no retry
IdentifyNoFallback ==
    /\ prog = "identify" /\ pc = "identify"
    /\ no_fallback' = TRUE
    /\ \/ \* identify_model raised
          /\ attempts' = Append(attempts, [type |-> model_type, outcome |-> "raised"])
          /\ Exit(1)
          /\ UNCHANGED model
       \/ \E result \in FitResults(model_type) :
             LET m == identify_model(model_type, result, mechanism) IN
             /\ model' = m
             /\ IF validate_model(m, DEFAULT_THRESHOLD_R_SQUARED)
                THEN /\ attempts' = Append(attempts,
                                      [type |-> model_type, outcome |-> "accepted"])
                     /\ pc' = "save"
                     /\ UNCHANGED exit_status
                ELSE /\ attempts' = Append(attempts,
                                      [type |-> model_type, outcome |-> "rejected"])
                     /\ Exit(1)
    /\ UNCHANGED <<prog, telemetry, step_idx, step_size, mechanism, model_type,
                   file_written, output_file, accVars, valVars, otherVars>>

\* faulty variant: with the chain exhausted main goes on to save the model
FallBack_saves_last ==
    LET fallback == fallback_map[model_type] IN
    IF fallback = None
    THEN pc' = "save" /\ UNCHANGED <<exit_status, model_type>>
    ELSE /\ model_type' = fallback
         /\ pc' = "try_with_fallback"
         /\ UNCHANGED exit_status

\* what one call of try_with_fallback does after its attempt failed:
\* look the type up in fallback_map, return None or recurse
FallBack ==
    LET fallback == fallback_map[model_type] IN
    IF fallback = None
    THEN Exit(1) /\ UNCHANGED model_type
    ELSE /\ model_type' = fallback
         /\ pc' = "try_with_fallback"
         /\ UNCHANGED exit_status

\* faulty variant: the error of identify_model is not recovered, the call returns None
HandleFitError_gives_up == Exit(1) /\ UNCHANGED model_type

\* the except clause of try_with_fallback: the error is printed and the call
\* goes on to the fallback lookup, as after a rejected model
HandleFitError == FallBack

\* one call of try_with_fallback (the first from main, the others recursive)
TryWithFallback ==
    /\ prog = "identify" /\ pc \in {"identify", "try_with_fallback"}
    /\ \/ \* identify_model raised: caught, fall back
          /\ attempts' = Append(attempts, [type |-> model_type, outcome |-> "raised"])
          /\ UNCHANGED model
          /\ HandleFitError
       \/ \E result \in FitResults(model_type) :
             LET m == identify_model(model_type, result, mechanism) IN
             IF validate_model(m, DEFAULT_THRESHOLD_R_SQUARED)
             THEN /\ attempts' = Append(attempts,
                                   [type |-> model_type, outcome |-> "accepted"])
                  /\ model' = m
                  /\ pc' = "save"
                  /\ UNCHANGED <<exit_status, model_type>>
             ELSE /\ attempts' = Append(attempts,
                                   [type |-> model_type, outcome |-> "rejected"])
                  /\ UNCHANGED model
                  /\ FallBack
    /\ UNCHANGED <<prog, telemetry, step_idx, step_size, mechanism, no_fallback,
                   file_written, output_file, accVars, valVars, otherVars>>

\* main after a model was returned: json.dump(model.to_dict()), return 0
SaveModel ==
    /\ prog = "identify" /\ pc = "save"
    /\ file_written' = TRUE
    /\ output_file' = model
    /\ Exit(0)
    /\ UNCHANGED <<prog, telemetry, step_idx, step_size, mechanism, no_fallback,
                   model_type, model, attempts, accVars, valVars, otherVars>>

-----------------------------------------------------------------------------
(* identify_params.validate_model applied to an arbitrary IdentifiedModel *)

AcceptParamChoices(name) ==
    CASE name = "tau"     -> {-100, 0, 1}
      [] name = "omega_n" -> {-100, 0, 1}
      [] name = "zeta"    -> {-1, 0, 200, 201}
      [] OTHER            -> {100}

AcceptInputs ==
    UNION {
      {[model_type |-> mt,
        parameters |-> f,
        confidence_intervals |-> [n \in DOMAIN f |-> <<f[n], f[n]>>],
        fit_quality |-> [r_squared |-> r, overall_confidence |-> c],
        mechanism |-> "elevator"] :
          f \in {g \in [Range(param_names(mt)) -> {-100, -1, 0, 1, 100, 200, 201}] :
                    \A n \in Range(param_names(mt)) : g[n] \in AcceptParamChoices(n)},
          r \in {84, 85}, c \in {8399, 8400}} : mt \in ModelType}

ApplyValidateModel ==
    /\ prog = "accept" /\ vresult = "pending"
    /\ vresult' = IF validate_model(vmodel, DEFAULT_THRESHOLD_R_SQUARED)
                  THEN "accepted" ELSE "rejected"
    /\ UNCHANGED <<prog, vmodel, idVars, valVars, otherVars>>

-----------------------------------------------------------------------------
(* select_model_auto and assess_confidence applied to arbitrary arguments *)

ApplySelectModelAuto ==
    /\ prog = "select" /\ sout = None
    /\ sout' = select_model_auto(sin.series, sin.mechanism, sin.step_size)
    /\ UNCHANGED <<prog, sin, idVars, accVars, valVars, scoreVars, gainVars, libVars, moreVars>>

\* parameter values given to assess_confidence (hundredths): inside and
\* outside the bounds it tests, zero and near zero
ScoreParamChoices(name) ==
    CASE name = "K"        -> {100}
      [] name = "tau"      -> {-100, 0, 1, 100}
      [] name = "omega_n"  -> {-100, 100}
      [] name = "zeta"     -> {-1, 0, 200, 201}
      [] name = "kg"       -> {-100, 0, 100}

\* half-widths of the intervals; a negative one gives lower > upper
ScoreMargins == {-10, 0, 60, 120, 300}

ScoreRSquared == {-50, 69, 70, 83, 95, 120}

ScoreInputs ==
    UNION {
      {[fit_quality |-> [r_squared |-> r],
        confidence_intervals |-> [n \in DOMAIN f |-> <<f[n] - m, f[n] + m>>],
        params |-> f] :
          f \in {g \in [Range(param_names(mt)) -> {-100, -1, 0, 1, 100, 200, 201}] :
                    \A n \in Range(param_names(mt)) : g[n] \in ScoreParamChoices(n)},
          r \in ScoreRSquared, m \in ScoreMargins} :
        mt \in {FIRST_ORDER, FIRST_ORDER_GRAVITY, SECOND_ORDER}}

NoScoreInput ==
    [fit_quality |-> [r_squared |-> 0], confidence_intervals |-> <<>>,
     params |-> <<>>]

ApplyAssessConfidence ==
    /\ prog = "score" /\ cout = -1
    /\ cout' = assess_confidence(cin.fit_quality, cin.confidence_intervals,
                                 cin.params)
    /\ UNCHANGED <<prog, cin, idVars, accVars, valVars, selVars, gainVars, libVars, moreVars>>

-----------------------------------------------------------------------------
(* validate_model.py : constants and tables *)

R_SQUARED_THRESHOLD == 85     \* 0.85, hundredths

CONFIDENCE_THRESHOLD == 80    \* 0.8, hundredths

MIN_DATA_POINTS == 20

MAX_NORMALIZED_RMSE == 15     \* 0.15, hundredths

inf == 2000000000             \* float('inf')

\* PHYSICS_LIMITS, in millionths
PHYSICS_LIMITS ==
    [J        |-> <<1, 100000000>>,
     b        |-> <<1, 100000000>>,
     tau      |-> <<10000, 100000000>>,
     K        |-> <<1000, 1000000000>>,
     kg       |-> <<0, 1000000>>,
     omega_n  |-> <<100000, 100000000>>,
     zeta     |-> <<10000, 2000000>>,
     friction |-> <<0, 1000000>>]

\* keys of the simulators table of simulate_model
simulators == {"first_order", "first_order_gravity", "second_order",
               "second_order_gravity", "angle_dependent_gravity", "friction",
               "variable_inertia"}

\* MODEL_SIMPLIFICATION
MODEL_SIMPLIFICATION ==
    [tag \in simulators |->
        CASE tag = "variable_inertia"        -> "friction"
          [] tag = "friction"                -> "second_order_gravity"
          [] tag = "second_order_gravity"    -> "first_order_gravity"
          [] tag = "second_order"            -> "first_order"
          [] tag = "angle_dependent_gravity" -> "first_order_gravity"
          [] tag = "first_order_gravity"     -> "first_order"
          [] tag = "first_order"             -> None]

\* MODEL_SIMPLIFICATION.get(key, default)
simplification_get(key, default) ==
    IF key \in DOMAIN MODEL_SIMPLIFICATION THEN MODEL_SIMPLIFICATION[key] ELSE default

-----------------------------------------------------------------------------
(* validate_model.py : simulation, physics checks, cross-validation *)

\* simulate_model raises ValueError: unknown tag, or no 'angle' keyword for
\* the angle-dependent simulator ('position' is passed by both callers)
simulate_model_raises(tag, angle_given) ==
    \/ tag \notin simulators
    \/ tag = "angle_dependent_gravity" /\ ~angle_given

\* parameter order of the model dict (the order identify_model wrote them in)
RECURSIVE physics_warnings(_, _, _)
physics_warnings(names, params, confidence) ==
    IF names = <<>> THEN <<>>
    ELSE LET n == Head(names)
             rest == physics_warnings(Tail(names), params, confidence)
         IN  IF n \notin DOMAIN PHYSICS_LIMITS THEN rest
             ELSE LET in_range == PHYSICS_LIMITS[n][1] <= params[n]
                                   /\ params[n] <= PHYSICS_LIMITS[n][2]
                      param_confidence ==
                          IF n \in DOMAIN confidence THEN confidence[n] ELSE 100
                      high_confidence == param_confidence >= CONFIDENCE_THRESHOLD
                  IN  (IF in_range THEN <<>>
                       ELSE <<[param |-> n, kind |-> "outside physical range"]>>)
                      \o (IF high_confidence THEN <<>>
                          ELSE <<[param |-> n, kind |-> "low confidence"]>>)
                      \o rest

\* the additional damping-ratio warnings for the second-order tags
damping_warnings(m) ==
    IF m.model_type \in {"second_order", "second_order_gravity"}
    THEN LET zeta == IF "zeta" \in DOMAIN m.parameters
                     THEN m.parameters["zeta"] ELSE 700000
         IN  IF zeta < 100000
             THEN <<[param |-> "zeta", kind |-> "very low damping ratio"]>>
             ELSE IF zeta > 1500000
             THEN <<[param |-> "zeta", kind |-> "very high damping ratio"]>>
             ELSE <<>>
    ELSE <<>>

\* check_physics_sanity
check_physics_sanity(m) ==
    LET w == physics_warnings(m.names, m.parameters, m.confidence) IN
    [all_passed |-> w = <<>>,
     warnings |-> w \o damping_warnings(m)]

\* the largest power of two not above x (x >= 1)
RECURSIVE binade(_)
binade(x) == IF x < 2 THEN 1 ELSE 2 * binade(x \div 2)

\* split_idx = int(len(data) * train_fraction) with train_fraction = 0.7, in
\* double arithmetic: the double nearest 0.7 is 0.7 - 2^-52/5, so the product
\* is below 7n/10 by n * 2^-52/5 before rounding.  Where x = 7n/10 is an
\* integer the product rounds to the double below x, and int() gives x - 1,
\* exactly when that error exceeds half the spacing 2^-52 * binade(x) of the
\* doubles below x, i.e. when x > 1.75 * binade(x); elsewhere it is floor(7n/10)
split_idx(n) ==
    LET x == (7 * n) \div 10 IN
    IF (7 * n) % 10 = 0 /\ x > 0 /\ 4 * x > 7 * binade(x) THEN x - 1 ELSE x

NoCrossValidation ==
    [enabled |-> FALSE, train_R_squared |-> 0, test_R_squared |-> 0,
     overfitting_detected |-> FALSE]

\* cross_validate, given what the two simulations produce:
\* cv.train / cv.test are "raised" or the R^2 on that part
cross_validate(m, data_len, cv) ==
    IF data_len < 20 THEN NoCrossValidation
    ELSE IF simulate_model_raises(m.model_type, FALSE) \/ cv.train_raised
    THEN NoCrossValidation
    ELSE IF cv.test_raised
    THEN [enabled |-> TRUE, train_R_squared |-> cv.r2_train,
          test_R_squared |-> 0, overfitting_detected |-> FALSE]
    ELSE [enabled |-> TRUE, train_R_squared |-> cv.r2_train,
          test_R_squared |-> cv.r2_test,
          overfitting_detected |-> (cv.r2_train - cv.r2_test) > 15]

-----------------------------------------------------------------------------
(* validate_model.py : fallback suggestion and report *)

NoSuggestion == [text |-> None, fallback |-> None, reason |-> ""]

TrySimpler(fallback, reason) ==
    [text |-> "Try simpler model", fallback |-> fallback, reason |-> reason]

\* faulty variant: the R^2 test comes before the physics test
suggest_fallback_r2_first(m, validation_report_) ==
    LET fallback == simplification_get(m.model_type, None) IN
    IF validation_report_.metrics.R_squared < R_SQUARED_THRESHOLD /\ fallback # None
    THEN TrySimpler(fallback, "R2 below threshold")
    ELSE IF ~validation_report_.physics_checks.all_passed /\ fallback # None
    THEN TrySimpler(fallback, "physics checks failed")
    ELSE IF validation_report_.cross_validation.overfitting_detected /\ fallback # None
    THEN TrySimpler(fallback, "overfitting detected")
    ELSE IF validation_report_.residual_analysis.systematic_bias
    THEN [text |-> "Consider different model structure or collect cleaner data",
          fallback |-> None, reason |-> "systematic bias in residuals"]
    ELSE NoSuggestion

\* suggest_fallback
suggest_fallback(m, validation_report_) ==
    LET fallback == simplification_get(m.model_type, None) IN
    IF ~validation_report_.physics_checks.all_passed /\ fallback # None
    THEN TrySimpler(fallback, "physics checks failed")
    ELSE IF validation_report_.metrics.R_squared < R_SQUARED_THRESHOLD /\ fallback # None
    THEN TrySimpler(fallback, "R2 below threshold")
    ELSE IF validation_report_.cross_validation.overfitting_detected /\ fallback # None
    THEN TrySimpler(fallback, "overfitting detected")
    ELSE IF validation_report_.residual_analysis.systematic_bias
    THEN [text |-> "Consider different model structure or collect cleaner data",
          fallback |-> None, reason |-> "systematic bias in residuals"]
    ELSE NoSuggestion

\* faulty variant: the number of usable samples is not tested
validation_passed_of_any_sample_count(metrics, physics_checks, residual_analysis, cross_val) ==
    /\ metrics.R_squared >= R_SQUARED_THRESHOLD
    /\ metrics.normalized_RMSE <= MAX_NORMALIZED_RMSE
    /\ physics_checks.all_passed
    /\ ~residual_analysis.systematic_bias
    /\ ~cross_val.overfitting_detected

\* the validation_passed expression of validate_model
validation_passed_of(metrics, physics_checks, residual_analysis, cross_val) ==
    /\ metrics.R_squared >= R_SQUARED_THRESHOLD
    /\ metrics.normalized_RMSE <= MAX_NORMALIZED_RMSE
    /\ physics_checks.all_passed
    /\ ~residual_analysis.systematic_bias
    /\ ~cross_val.overfitting_detected
    /\ metrics.num_samples >= MIN_DATA_POINTS

\* the recommendations list of validate_model
recommendations_of(passed, metrics, physics_checks, residual_analysis, cross_val) ==
    <<IF passed THEN "Model validation passed" ELSE "Model validation failed">>
    \o (IF metrics.R_squared < R_SQUARED_THRESHOLD
        THEN <<"R2 below threshold">> ELSE <<>>)
    \o (IF metrics.normalized_RMSE > MAX_NORMALIZED_RMSE
        THEN <<"Normalized RMSE above threshold">> ELSE <<>>)
    \o (IF ~physics_checks.all_passed
        THEN <<"Physics sanity checks failed">> ELSE <<>>)
    \o (IF residual_analysis.systematic_bias
        THEN <<"Systematic bias in residuals detected">> ELSE <<>>)
    \o (IF cross_val.overfitting_detected
        THEN <<"Model overfitting detected in cross-validation">> ELSE <<>>)
    \o (IF metrics.num_samples < MIN_DATA_POINTS
        THEN <<"Insufficient data points">> ELSE <<>>)

NoReport ==
    [validation_passed |-> FALSE, model_type |-> None,
     metrics |-> [R_squared |-> 0, normalized_RMSE |-> 0, num_samples |-> 0],
     physics_checks |-> [all_passed |-> FALSE, warnings |-> <<>>],
     residual_analysis |-> [systematic_bias |-> FALSE],
     cross_validation |-> NoCrossValidation,
     acceptance_criteria |-> <<>>,
     recommendations |-> <<>>,
     fallback_suggestion |-> NoSuggestion]

\* the acceptance_criteria record of a report
acceptance_criteria ==
    [R_squared_threshold |-> R_SQUARED_THRESHOLD,
     confidence_threshold |-> CONFIDENCE_THRESHOLD,
     max_normalized_RMSE |-> MAX_NORMALIZED_RMSE,
     min_data_points |-> MIN_DATA_POINTS]

\* the report validate_model returns when simulate_model raised
failed_simulation_report(m) ==
    [validation_passed |-> FALSE,
     model_type |-> m.model_type,
     metrics |-> [R_squared |-> 0, normalized_RMSE |-> inf, num_samples |-> 0],
     physics_checks |-> [all_passed |-> FALSE,
                         warnings |-> <<[param |-> "", kind |-> "Simulation failed"]>>],
     residual_analysis |-> [systematic_bias |-> FALSE],
     cross_validation |-> NoCrossValidation,
     acceptance_criteria |-> <<>>,
     recommendations |-> <<"Model simulation failed - try simpler model">>,
     fallback_suggestion |->
        [text |-> simplification_get(m.model_type, "first_order"),
         fallback |-> simplification_get(m.model_type, "first_order"),
         reason |-> ""]]

\* validate_model after a successful simulation; sim holds what the
\* numerical stages computed from the simulated and recorded positions
validation_report(m, tel, enable_cross_validation, sim) ==
    LET metrics == [R_squared |-> sim.R_squared,
                    normalized_RMSE |-> sim.normalized_RMSE,
                    num_samples |-> tel.data_len - sim.nonfinite]
        physics_checks == check_physics_sanity(m)
        residual_analysis == [systematic_bias |-> sim.systematic_bias]
        cross_val == IF enable_cross_validation
                     THEN cross_validate(m, tel.data_len, sim.cv)
                     ELSE NoCrossValidation
        passed == validation_passed_of(metrics, physics_checks,
                                       residual_analysis, cross_val)
        rep == [validation_passed |-> passed,
                   model_type |-> m.model_type,
                   metrics |-> metrics,
                   physics_checks |-> physics_checks,
                   residual_analysis |-> residual_analysis,
                   cross_validation |-> cross_val,
                   acceptance_criteria |-> acceptance_criteria,
                   recommendations |-> recommendations_of(passed, metrics,
                       physics_checks, residual_analysis, cross_val),
                   fallback_suggestion |-> NoSuggestion]
    IN  IF ~passed
        THEN [rep EXCEPT !.fallback_suggestion = suggest_fallback(m, rep)]
        ELSE rep

-----------------------------------------------------------------------------
(* validate_model.py : validate_model on a model file and a telemetry file *)

\* model_type tags a model file can carry: the validator's own tags and the
\* tags identify_params.py writes (ModelType values)
ModelTags == simulators \cup ModelType

\* the ModelType a tag denotes
TagModelType(tag) ==
    CASE tag \in {"first_order", FIRST_ORDER}                   -> FIRST_ORDER
      [] tag \in {"first_order_gravity", FIRST_ORDER_GRAVITY}   -> FIRST_ORDER_GRAVITY
      [] tag \in {"second_order", SECOND_ORDER}                 -> SECOND_ORDER
      [] tag \in {"second_order_gravity", SECOND_ORDER_GRAVITY} -> SECOND_ORDER_GRAVITY
      [] tag \in {"angle_dependent_gravity", ANGLE_DEPENDENT}   -> ANGLE_DEPENDENT
      [] tag = FRICTION                                         -> FRICTION
      [] tag \in {"variable_inertia", VARIABLE_INERTIA}         -> VARIABLE_INERTIA

\* a value inside PHYSICS_LIMITS for each parameter (millionths), on a limit
\* where there is one
InRangeValue(name) ==
    CASE name = "K"        -> 1000000
      [] name = "tau"      -> 10000
      [] name = "omega_n"  -> 100000
      [] name = "zeta"     -> 2000000
      [] name = "kg"       -> 0
      [] name = "J"        -> 1
      [] name = "b"        -> 100000000
      [] name = "friction" -> 1000000
      [] name = "J_base"   -> 50000
      [] name = "J_slope"  -> -1000000

\* a value just outside the limits (J_base, J_slope have no limits)
OutOfRangeValue(name) ==
    CASE name = "K"        -> 999
      [] name = "tau"      -> 9999
      [] name = "omega_n"  -> 99999
      [] name = "zeta"     -> 2000001
      [] name = "kg"       -> -1
      [] name = "J"        -> 0
      [] name = "b"        -> 100000001
      [] name = "friction" -> 1000001
      [] name = "J_base"   -> -50000
      [] name = "J_slope"  -> 200000000

\* model files: all parameters in range, or exactly one out of range; no
\* 'confidence' entry, or one for the first parameter at / below the threshold
ModelFiles ==
    UNION {
      LET names == param_names(TagModelType(tag))
          good == [n \in Range(names) |-> InRangeValue(n)]
      IN  {[model_type |-> tag, names |-> names, parameters |-> f,
            confidence |-> <<>>] :
              f \in {good} \cup
                    {[good EXCEPT ![n] = OutOfRangeValue(n)] : n \in Range(names)}}
          \cup
          {[model_type |-> tag, names |-> names, parameters |-> good,
            confidence |-> [n \in {names[1]} |-> c]] :
              c \in {CONFIDENCE_THRESHOLD - 1, CONFIDENCE_THRESHOLD}}
      : tag \in ModelTags}

\* telemetry files: number of records in 'data', whether data[0] has 'angle'
DataLens == {0, MIN_DATA_POINTS - 1, MIN_DATA_POINTS, 90}

ValidatorInputs ==
    {[model |-> m,
      telemetry |-> [data_len |-> n, has_angle |-> a],
      enable_cross_validation |-> cv] :
        m \in ModelFiles, n \in DataLens, a \in BOOLEAN, cv \in BOOLEAN}

\* (R^2, normalized RMSE) pairs one simulation can give, hundredths:
\* nrmse^2 = (1 - R^2) * var(y) / range(y)^2 <= (1 - R^2) / 4
MetricPairs ==
    {p \in {84, 85, 100} \X {0, 15, 16} :
        /\ 4 * p[2] * p[2] <= 100 * (100 - p[1])
        /\ (p[2] = 0) <=> (p[1] = 100)}

CrossValidationRuns ==
    [train_raised : BOOLEAN, test_raised : BOOLEAN,
     r2_train : {100}, r2_test : {84, 85}]

NoCrossValidationRun ==
    [train_raised |-> FALSE, test_raised |-> FALSE, r2_train |-> 100, r2_test |-> 85]

\* validate_model with an empty data array: data[0] raises IndexError
ValidateEmpty ==
    /\ prog = "validate" /\ vstatus = "pending"
    /\ vin.telemetry.data_len = 0
    /\ vstatus' = "raised"
    /\ UNCHANGED <<prog, vin, report, idVars, accVars, otherVars>>

\* validate_model when simulate_model raises
ValidateSimulationFailed ==
    /\ prog = "validate" /\ vstatus = "pending"
    /\ vin.telemetry.data_len > 0
    /\ \/ simulate_model_raises(vin.model.model_type, vin.telemetry.has_angle)
       \/ vin.model.model_type \in simulators   \* the simulator itself raised
    /\ report' = failed_simulation_report(vin.model)
    /\ vstatus' = "report"
    /\ UNCHANGED <<prog, vin, idVars, accVars, otherVars>>

\* validate_model when the simulation ran
ValidateSimulated ==
    /\ prog = "validate" /\ vstatus = "pending"
    /\ vin.telemetry.data_len > 0
    /\ ~simulate_model_raises(vin.model.model_type, vin.telemetry.has_angle)
    /\ \E p \in MetricPairs, nf \in {0, 1}, bias \in BOOLEAN,
          cv \in CrossValidationRuns :
          /\ vin.enable_cross_validation \/ cv = NoCrossValidationRun
          /\ report' = validation_report(vin.model, vin.telemetry,
                          vin.enable_cross_validation,
                          [R_squared |-> p[1], normalized_RMSE |-> p[2],
                           nonfinite |-> nf, systematic_bias |-> bias, cv |-> cv])
    /\ vstatus' = "report"
    /\ UNCHANGED <<prog, vin, idVars, accVars, otherVars>>

NoValidatorInput ==
    [model |-> [model_type |-> None, names |-> <<>>, parameters |-> <<>>,
                confidence |-> <<>>],
     telemetry |-> [data_len |-> 0, has_angle |-> FALSE],
     enable_cross_validation |-> FALSE]

-----------------------------------------------------------------------------
(* calculate_gains.py : the three synthesis methods *)

\* the value of -ln(PO) / sqrt(pi^2 + ln(PO)^2) for a positive overshoot
\* target PO percent, to three decimals (9.48% gives 0.600)
damping_for_overshoot(max_overshoot_percent) ==
    CASE max_overshoot_percent = Rat(948, 100) -> Rat(600, 1000)

\* exp(-zeta*pi/sqrt(1 - zeta^2)) * 100 rounded to one decimal (tenths), 0 for
\* zeta >= 1
overshoot_for_damping(zeta) ==
    CASE ~RLess(zeta, RInt(1)) -> 0
      [] zeta = Rat(6, 10)     -> 95
      [] zeta = Rat(7, 10)     -> 46

\* (1 + 1.1*zeta + 1.4*zeta^2) / rise_time_sec
natural_frequency_for(zeta, rise_time_sec) ==
    RDiv(RAdd(RInt(1), RAdd(RMul(Rat(11, 10), zeta),
                            RMul(Rat(14, 10), RMul(zeta, zeta)))),
         rise_time_sec)

\* predict_closed_loop_performance / predict_second_order_performance: the
\* predicted overshoot (tenths of a percent) and the damping ratio and natural
\* frequency they report
predict_performance(zeta, omega_n) ==
    [overshoot_percent |-> overshoot_for_damping(zeta),
     damping_ratio |-> zeta,
     natural_frequency_rad_s |-> omega_n]

\* params.get(name, default)
params_get(params, name, default) ==
    IF name \in DOMAIN params THEN params[name] ELSE default

\* an uncaught exception (KeyError, ZeroDivisionError) of a synthesis method
GainsRaised(error) ==
    [raised |-> TRUE, error |-> error, kP |-> 0, kD |-> 0, kG |-> 0,
     predicted_performance |-> [overshoot_percent |-> 0],
     design_params |-> [desired_zeta |-> RInt(0), desired_omega_n |-> RInt(0)]]

GainsResult(kP, kD, kG, predicted, zeta_desired, omega_n_desired) ==
    [raised |-> FALSE, error |-> "", kP |-> round6(kP), kD |-> round6(kD),
     kG |-> round6(kG), predicted_performance |-> predicted,
     design_params |-> [desired_zeta |-> zeta_desired,
                        desired_omega_n |-> omega_n_desired]]

\* branch of calculate_pole_placement_gains for first_order(_gravity)
pole_placement_first_order(params, rise_time_sec, max_overshoot_percent) ==
    IF "K" \notin DOMAIN params THEN GainsRaised("KeyError: 'K'")
    ELSE IF "tau" \notin DOMAIN params THEN GainsRaised("KeyError: 'tau'")
    ELSE IF RZero(rise_time_sec) \/ RZero(params["K"])
    THEN GainsRaised("ZeroDivisionError")
    ELSE
    LET K == params["K"]
        tau == params["tau"]
        kg == params_get(params, "kg", RInt(0))
        zeta_desired ==
            IF RLess(RInt(0), max_overshoot_percent)
            THEN RMax(Rat(4, 10),
                      RMin(Rat(9, 10), damping_for_overshoot(max_overshoot_percent)))
            ELSE RInt(1)
        omega_n_desired == natural_frequency_for(zeta_desired, rise_time_sec)
        kP == RDiv(RSub(RMul(RMul(RInt(2), zeta_desired),
                             RMul(omega_n_desired, tau)), RInt(1)), K)
        kD == RDiv(RMul(tau, RMul(omega_n_desired, omega_n_desired)), K)
    IN  GainsResult(RMax(Rat(1, 10000), kP), RMax(RInt(0), kD), kg,
                    predict_performance(zeta_desired, omega_n_desired),
                    zeta_desired, omega_n_desired)

\* branch for second_order(_gravity)
pole_placement_second_order(params, rise_time_sec, max_overshoot_percent) ==
    IF "K" \notin DOMAIN params THEN GainsRaised("KeyError: 'K'")
    ELSE IF "omega_n" \notin DOMAIN params THEN GainsRaised("KeyError: 'omega_n'")
    ELSE IF "zeta" \notin DOMAIN params THEN GainsRaised("KeyError: 'zeta'")
    ELSE IF RZero(rise_time_sec) \/ RZero(params["K"])
    THEN GainsRaised("ZeroDivisionError")
    ELSE
    LET K == params["K"]
        omega_n == params["omega_n"]
        zeta == params["zeta"]
        kg == params_get(params, "kg", RInt(0))
        zeta_desired ==
            IF RLess(RInt(0), max_overshoot_percent)
            THEN damping_for_overshoot(max_overshoot_percent)
            ELSE RInt(1)
        omega_n_desired == natural_frequency_for(zeta_desired, rise_time_sec)
        kP == RDiv(RSub(RMul(omega_n_desired, omega_n_desired),
                        RMul(omega_n, omega_n)), K)
        kD == RDiv(RSub(RMul(RMul(RInt(2), zeta_desired), omega_n_desired),
                        RMul(RMul(RInt(2), zeta), omega_n)), K)
    IN  GainsResult(RMax(Rat(1, 10000), kP), RMax(RInt(0), kD), kg,
                    predict_performance(zeta_desired, omega_n_desired),
                    zeta_desired, omega_n_desired)

\* branch for every other model_type ('simplified approach')
pole_placement_simplified(params, rise_time_sec) ==
    LET K == params_get(params, "K", RInt(1))
        tau == params_get(params, "tau", RInt(1))
        kg == params_get(params, "kg", RInt(0))
        zeta_desired == Rat(7, 10)
    IN  IF RZero(rise_time_sec) \/ RZero(K) THEN GainsRaised("ZeroDivisionError")
        ELSE
        LET omega_n_desired == RDiv(Rat(18, 10), rise_time_sec)
            kP == RDiv(RSub(RMul(RMul(RInt(2), zeta_desired),
                                 RMul(omega_n_desired, tau)), RInt(1)), K)
            kD == RDiv(RMul(tau, RMul(omega_n_desired, omega_n_desired)), K)
        IN  GainsResult(RMax(Rat(1, 10000), kP), RMax(RInt(0), kD), kg,
                        predict_performance(zeta_desired, omega_n_desired),
                        zeta_desired, omega_n_desired)

\* the plant branch calculate_pole_placement_gains takes for a model_type tag
pole_placement_branch(tag) ==
    IF tag \in {"first_order", "first_order_gravity"} THEN "first_order"
    ELSE IF tag \in {"second_order", "second_order_gravity"} THEN "second_order"
    ELSE "simplified"

calculate_pole_placement_gains(m, rise_time_sec, max_overshoot_percent) ==
    IF pole_placement_branch(m.model_type) = "first_order"
    THEN pole_placement_first_order(m.parameters, rise_time_sec,
                                    max_overshoot_percent)
    ELSE IF pole_placement_branch(m.model_type) = "second_order"
    THEN pole_placement_second_order(m.parameters, rise_time_sec,
                                     max_overshoot_percent)
    ELSE pole_placement_simplified(m.parameters, rise_time_sec)

calculate_ziegler_nichols_gains(m) ==
    LET params == m.parameters
        K == params_get(params, "K", RInt(1))
        tau == params_get(params, "tau", RInt(1))
        kg == params_get(params, "kg", RInt(0))
    IN  IF RZero(RMul(K, tau)) THEN GainsRaised("ZeroDivisionError")
        ELSE [GainsResult(RDiv(Rat(1, 2), RMul(K, tau)), RMul(Rat(1, 2), tau), kg,
                          [overshoot_percent |-> 100], RInt(0), RInt(0))
                EXCEPT !.design_params = <<>>]

\* faulty variant: the feedforward gain is not taken from the model
calculate_lambda_tuning_gains_without_kg(m, lambda_factor) ==
    LET params == m.parameters
        K == params_get(params, "K", RInt(1))
        tau == params_get(params, "tau", RInt(1))
        lambda_cl == RMul(lambda_factor, tau)
    IN  IF RZero(RMul(K, lambda_cl)) THEN GainsRaised("ZeroDivisionError")
        ELSE [GainsResult(RDiv(tau, RMul(K, lambda_cl)), RInt(0), RInt(0),
                          [overshoot_percent |-> 0], RInt(0), RInt(0))
                EXCEPT !.design_params = <<>>]

calculate_lambda_tuning_gains(m, lambda_factor) ==
    LET params == m.parameters
        K == params_get(params, "K", RInt(1))
        tau == params_get(params, "tau", RInt(1))
        kg == params_get(params, "kg", RInt(0))
        lambda_cl == RMul(lambda_factor, tau)
    IN  IF RZero(RMul(K, lambda_cl)) THEN GainsRaised("ZeroDivisionError")
        ELSE [GainsResult(RDiv(tau, RMul(K, lambda_cl)), RInt(0), kg,
                          [overshoot_percent |-> 0], RInt(0), RInt(0))
                EXCEPT !.design_params = <<>>]

-----------------------------------------------------------------------------
(* calculate_gains.py : main *)

\* values of the parameters in a model file (exact rationals)
GainParamChoices(name) ==
    CASE name = "K"        -> {RInt(2), RInt(-2), RInt(0)}
      [] name = "tau"      -> {Rat(1, 2), RInt(0)}
      [] name = "omega_n"  -> {RInt(1), RInt(4)}
      [] name = "zeta"     -> {Rat(1, 2)}
      [] name = "kg"       -> {RInt(0), Rat(1234567, 10000000), Rat(-1, 10)}
      [] name = "J"        -> {RInt(1)}
      [] name = "b"        -> {RInt(1)}
      [] name = "friction" -> {RInt(1)}
      [] name = "J_base"   -> {RInt(1)}
      [] name = "J_slope"  -> {RInt(1)}

\* the 'parameters' of a model file over the given names
GainParams(names) ==
    {f \in [names -> UNION {GainParamChoices(n) : n \in names}] :
        \A n \in names : f[n] \in GainParamChoices(n)}

\* model files: the parameters of the tagged structure, complete or with K
\* or tau left out
GainModels ==
    UNION {
      {[model_type |-> tag, parameters |-> f] :
          f \in GainParams(Range(param_names(TagModelType(tag)))) \cup
                GainParams(Range(param_names(TagModelType(tag))) \ {"K"}) \cup
                GainParams(Range(param_names(TagModelType(tag))) \ {"tau"})} :
        tag \in ModelTags}

NoGainModel == [model_type |-> None, parameters |-> <<>>]

Methods == {"pole-placement", "model-based-zn", "lambda-tuning"}

RiseTimes == {RInt(1), Rat(1, 2)}

OvershootTargets == {RInt(0), Rat(948, 100)}

LambdaFactors == {RInt(1), RInt(2), RInt(0), RInt(-1)}

\* --model file: readable with both fields, missing, not JSON, or lacking
\* 'model_type' / 'parameters'
GainFiles == {"ok", "not_found", "invalid_json", "no_model_type", "no_parameters"}

\* validation_passed: what validate_model.py reported for the model file
\* (main has no argument for the report and never reads it)
GainInputs ==
    {[file |-> "ok", model |-> m, validation_passed |-> v, method |-> "pole-placement",
      rise_time |-> rt, overshoot |-> po, lambda_factor |-> RInt(1)] :
        m \in GainModels, v \in BOOLEAN, rt \in RiseTimes, po \in OvershootTargets}
    \cup
    {[file |-> "ok", model |-> m, validation_passed |-> v, method |-> "model-based-zn",
      rise_time |-> RInt(1), overshoot |-> RInt(10), lambda_factor |-> RInt(1)] :
        m \in GainModels, v \in BOOLEAN}
    \cup
    {[file |-> "ok", model |-> m, validation_passed |-> v, method |-> "lambda-tuning",
      rise_time |-> RInt(1), overshoot |-> RInt(10), lambda_factor |-> lf] :
        m \in GainModels, v \in BOOLEAN, lf \in LambdaFactors}
    \cup
    {[file |-> k, model |-> NoGainModel, validation_passed |-> FALSE, method |-> me,
      rise_time |-> RInt(1), overshoot |-> RInt(10), lambda_factor |-> RInt(1)] :
        k \in GainFiles \ {"ok"}, me \in Methods}

NoGainInput ==
    [file |-> "", model |-> NoGainModel, validation_passed |-> FALSE, method |-> "",
     rise_time |-> RInt(0), overshoot |-> RInt(0), lambda_factor |-> RInt(0)]

NoGainOutput ==
    [synthesis_method |-> "", calculated_gains |-> [kP |-> 0, kD |-> 0, kG |-> 0],
     predicted_performance |-> [overshoot_percent |-> 0],
     design_parameters |-> <<>>]

\* main: the model file cannot be loaded or lacks a required field
GainsLoadFailed ==
    /\ prog = "gains" /\ gstatus = "pending"
    /\ gin.file # "ok"
    /\ gstatus' = "exit1"
    /\ UNCHANGED <<prog, gin, gout, idVars, accVars, valVars, selVars, scoreVars, libVars, moreVars>>

\* main after gains_result is computed: the output file, or the uncaught
\* exception of the method
WriteGains(gains_result) ==
    IF gains_result.raised
    THEN gstatus' = "raised" /\ UNCHANGED gout
    ELSE /\ gstatus' = "written"
         /\ gout' = [synthesis_method |-> gin.method,
                     calculated_gains |-> [kP |-> gains_result.kP,
                                           kD |-> gains_result.kD,
                                           kG |-> gains_result.kG],
                     predicted_performance |-> gains_result.predicted_performance,
                     design_parameters |-> gains_result.design_params]

GainsPolePlacement ==
    /\ prog = "gains" /\ gstatus = "pending"
    /\ gin.file = "ok" /\ gin.method = "pole-placement"
    /\ WriteGains(calculate_pole_placement_gains(gin.model, gin.rise_time,
                                                 gin.overshoot))
    /\ UNCHANGED <<prog, gin, idVars, accVars, valVars, selVars, scoreVars, libVars, moreVars>>

GainsZieglerNichols ==
    /\ prog = "gains" /\ gstatus = "pending"
    /\ gin.file = "ok" /\ gin.method = "model-based-zn"
    /\ WriteGains(calculate_ziegler_nichols_gains(gin.model))
    /\ UNCHANGED <<prog, gin, idVars, accVars, valVars, selVars, scoreVars, libVars, moreVars>>

GainsLambdaTuning ==
    /\ prog = "gains" /\ gstatus = "pending"
    /\ gin.file = "ok" /\ gin.method = "lambda-tuning"
    /\ WriteGains(calculate_lambda_tuning_gains(gin.model, gin.lambda_factor))
    /\ UNCHANGED <<prog, gin, idVars, accVars, valVars, selVars, scoreVars, libVars, moreVars>>

-----------------------------------------------------------------------------
(* select_model.py : the model catalogue and the selection output *)

\* MODEL_LIBRARY: the 'parameters' list of each catalogued structure, by key
MODEL_LIBRARY ==
    [k \in {"first-order", "first-order-gravity", "second-order",
            "angle-dependent", "friction", "variable-inertia"} |->
        CASE k = "first-order"         -> <<"K", "tau">>
          [] k = "first-order-gravity" -> <<"K", "tau", "kg">>
          [] k = "second-order"        -> <<"K", "omega_n", "zeta", "kg">>
          [] k = "angle-dependent"     -> <<"K", "tau", "kg">>
          [] k = "friction"            -> <<"J", "b", "friction", "kg">>
          [] k = "variable-inertia"    -> <<"J_base", "J_slope", "b", "kg">>]

\* suggest_simpler_model's simplification_map, None where it has no entry
simplification_map ==
    [k \in DOMAIN MODEL_LIBRARY |->
        CASE k = "variable-inertia"    -> "first-order-gravity"
          [] k = "friction"            -> "first-order-gravity"
          [] k = "second-order"        -> "first-order-gravity"
          [] k = "angle-dependent"     -> "first-order-gravity"
          [] k = "first-order-gravity" -> "first-order"
          [] OTHER                     -> None]

suggest_simpler_model(current_model) == simplification_map[current_model]

\* the validation_requirements of every selection output (hundredths)
validation_requirements == [min_r_squared |-> 85, min_confidence |-> 80]

generate_model_output(model_key, mech) ==
    [selected_model |-> [model_type |-> model_key,
                         parameters |-> MODEL_LIBRARY[model_key],
                         num_parameters |-> Len(MODEL_LIBRARY[model_key])],
     mechanism |-> mech,
     validation_requirements |-> validation_requirements,
     fallback_model |-> suggest_simpler_model(model_key)]

NoSelection == [model |-> None, mechanism |-> ""]

NoSelectionOutput ==
    [selected_model |-> [model_type |-> None, parameters |-> <<>>,
                         num_parameters |-> 0],
     mechanism |-> "",
     validation_requirements |-> <<>>,
     fallback_model |-> None]

Selections == [model : DOMAIN MODEL_LIBRARY, mechanism : Mechanisms]

GenerateModelOutput ==
    /\ prog = "catalogue" /\ selection_output = NoSelectionOutput
    /\ selection_output' = generate_model_output(selected.model, selected.mechanism)
    /\ UNCHANGED <<prog, selected, idVars, accVars, valVars, selVars, scoreVars,
                   gainVars, moreVars>>

-----------------------------------------------------------------------------
(* identify_params.py : the solver set-up of identify_first_order and
   identify_second_order (positions in ticks, solver values in hundredths) *)

\* p0 and bounds handed to optimize.curve_fit
solver_setup(order, pos_initial, final_value, omega_n_guess) ==
    LET K_guess == final_value - pos_initial IN
    IF order = "first"
    THEN [p0    |-> <<K_guess * 100, 100>>,
          lower |-> <<K_guess * 50, 1>>,
          upper |-> <<K_guess * 200, 1000>>]
    ELSE [p0    |-> <<K_guess * 100, omega_n_guess, 70>>,
          lower |-> <<K_guess * 50, 10, 5>>,
          upper |-> <<K_guess * 200, 2000, 100>>]

\* curve_fit with bounds raises ValueError when a lower bound is not strictly
\* below its upper bound or p0 lies outside the bounds
curve_fit_raises(setup) ==
    \E i \in 1..Len(setup.p0) :
        \/ setup.lower[i] >= setup.upper[i]
        \/ setup.p0[i] < setup.lower[i]
        \/ setup.p0[i] > setup.upper[i]

FitOrders == {"first", "second"}

PositionVals == {0, 500, 1200}

\* omega_n_guess: the default 3.0, or 2.2 / rise_time for a rise time of 0.1 s
OmegaGuesses == {300, 2200}

FitInputs ==
    [order : FitOrders, pos_initial : PositionVals, final_value : PositionVals,
     omega_n_guess : OmegaGuesses]

NoFitInput == [order |-> "", pos_initial |-> 0, final_value |-> 0, omega_n_guess |-> 0]

NoFitOutput == [setup |-> [p0 |-> <<>>, lower |-> <<>>, upper |-> <<>>],
                status |-> "pending"]

\* the try block of identify_first_order / identify_second_order: curve_fit
\* returns parameters, or raises and the error is re-raised as ValueError
SetUpFit ==
    /\ prog = "fit" /\ fitout = NoFitOutput
    /\ LET setup == solver_setup(fitin.order, fitin.pos_initial, fitin.final_value,
                                 fitin.omega_n_guess)
       IN  \/ fitout' = [setup |-> setup, status |-> "raised"]
           \/ /\ ~curve_fit_raises(setup)
              /\ fitout' = [setup |-> setup, status |-> "fitted"]
    /\ UNCHANGED <<prog, fitin, idVars, accVars, valVars, selVars, scoreVars,
                   gainVars, libVars, tuneVars>>

-----------------------------------------------------------------------------
(* tuning_orchestrator.py : TuningOrchestrator *)

max_iterations == 5

\* str.strip() on the answers the model types
strip(s) ==
    CASE s = " 2 "   -> "2"
      [] s = " YES " -> "YES"
      [] s = " A"    -> "A"
      [] s = " 50 "  -> "50"
      [] OTHER       -> s

\* str.lower() on them
lower(s) ==
    CASE s = "YES" -> "yes"
      [] s = "A"   -> "a"
      [] OTHER     -> s

\* int(text): surrounding blanks are ignored; anything but an optionally
\* signed run of digits raises ValueError
int_of(text) ==
    CASE strip(text) = "0"    -> [raised |-> FALSE, value |-> 0]
      [] strip(text) = "50"   -> [raised |-> FALSE, value |-> 50]
      [] strip(text) = "100"  -> [raised |-> FALSE, value |-> 100]
      [] strip(text) = "500"  -> [raised |-> FALSE, value |-> 500]
      [] strip(text) = "1000" -> [raised |-> FALSE, value |-> 1000]
      [] strip(text) = "-5"   -> [raised |-> FALSE, value |-> -5]
      [] OTHER                -> [raised |-> TRUE, value |-> 0]

mechanism_map ==
    [c \in {"1", "2", "3", "4"} |->
        CASE c = "1" -> "elevator"
          [] c = "2" -> "arm"
          [] c = "3" -> "flywheel"
          [] c = "4" -> "turret"]

algo_map ==
    [c \in {"1", "2", "3", "4"} |->
        CASE c = "1" -> "step_response"
          [] c = "2" -> "ziegler_nichols"
          [] c = "3" -> "relay_feedback"
          [] c = "4" -> "optimize"]

\* str.capitalize() on the mechanism names
capitalize(s) ==
    CASE s = "elevator" -> "Elevator"
      [] s = "arm"      -> "Arm"
      [] s = "flywheel" -> "Flywheel"
      [] s = "turret"   -> "Turret"

\* mechanism_config = None
NoMechanismConfig ==
    [name |-> None, type |-> None, min_position |-> 0, max_position |-> 0,
     max_velocity |-> 0, max_acceleration |-> 0]

\* TuningOrchestrator.__init__
TuningOrchestrator_init ==
    [mechanism_config |-> NoMechanismConfig, algorithm |-> "", iteration |-> 0,
     current_gains |-> <<>>]

NoResults ==
    [mechanism |-> NoMechanismConfig, algorithm |-> "", final_gains |-> <<>>,
     iterations |-> 0]

\* the files on disk: their names, and the content of the two JSON files
NoFiles == [names |-> {}, config |-> NoMechanismConfig, results |-> NoResults]

\* setup_phase on the answers <<choice, min_pos, max_pos, max_vel, max_accel,
\* algo_choice>>: the result, the answers read, the object and the config
\* file afterwards
setup_phase(self, answers) ==
    LET choice == strip(answers[1])
        limits == [i \in 1..4 |-> int_of(answers[i + 1])]
        bad == {i \in 1..4 : limits[i].raised}
        first_bad == CHOOSE i \in bad : \A j \in bad : i <= j
        algo_choice == strip(answers[6])
        failed(n) == [ok |-> FALSE, read |-> SubSeq(answers, 1, n), self |-> self,
                      written |-> {}, config |-> NoMechanismConfig]
    IN  IF choice \notin DOMAIN mechanism_map THEN failed(1)
        ELSE IF bad # {} THEN failed(first_bad + 1)
        ELSE IF algo_choice \notin DOMAIN algo_map THEN failed(6)
        ELSE LET mech == mechanism_map[choice]
                 mechanism_config ==
                     [name |-> capitalize(mech), type |-> mech,
                      min_position |-> limits[1].value,
                      max_position |-> limits[2].value,
                      max_velocity |-> limits[3].value,
                      max_acceleration |-> limits[4].value]
             IN  [ok |-> TRUE, read |-> answers,
                  self |-> [self EXCEPT !.algorithm = algo_map[algo_choice],
                                        !.mechanism_config = mechanism_config],
                  written |-> {"mechanism_config.json"},
                  config |-> mechanism_config]

\* generate_opmode, given what subprocess.run did: "0" / "1" its returncode,
\* "exception" when it raised
generate_opmode(outcome) == outcome = "0"

\* faulty variant: every answer but "no" passes the safety check
safety_phase_unless_no(response) == lower(strip(response)) # "no"

\* safety_phase on the answer to "Ready to proceed? (yes/no)"
safety_phase(response) == lower(strip(response)) = "yes"

\* the gains of the first iteration
default_gains ==
    [kP |-> Rat(1, 1000), kI |-> RInt(0), kD |-> RInt(0), kG |-> RInt(0)]

\* proposed_gains of one iteration
proposed_gains(current_gains) ==
    [kP |-> RMul(current_gains.kP, Rat(3, 2)),
     kI |-> current_gains.kI,
     kD |-> RAdd(current_gains.kD, Rat(1, 10000)),
     kG |-> RAdd(current_gains.kG, Rat(5, 100))]

\* faulty variant: 'r' applies the proposed gains like 'c'
gains_after_choice_no_revert(choice, current_gains, proposed) ==
    IF choice \in {"a", "q"} THEN current_gains ELSE proposed

\* self.current_gains after the user's decision of one iteration
gains_after_choice(choice, current_gains, proposed) ==
    IF choice \in {"a", "q", "r"} THEN current_gains ELSE proposed

MechanismAnswers == {"1", " 2 ", "5", ""}

LimitAnswers ==
    {<<"0", "1000", "500", "100">>, <<"-5", " 50 ", "500", "100">>,
     <<"0", "1.5", "500", "100">>, <<"", "1000", "500", "100">>,
     <<"0", "1000", "500", "fast">>}

AlgorithmAnswers == {"1", "4", "0"}

GeneratorOutcomes == {"0", "1", "exception"}

SafetyAnswers == {"yes", " YES ", "no", "y", ""}

LoopAnswers == {"c", "r", " A", "q", "x"}

\* return <status> in run
Return(status) ==
    /\ opc' = "returned"
    /\ run_result' = status

\* run after a phase returned: go on to the next phase, or return 1
AfterPhase(name, ok, read, next) ==
    /\ phases' = Append(phases, [name |-> name, ok |-> ok, inputs |-> read])
    /\ IF ok THEN opc' = next /\ UNCHANGED run_result ELSE Return(1)

SetupPhase ==
    /\ prog = "tune" /\ opc = "setup_phase"
    /\ \E choice \in MechanismAnswers, limits \in LimitAnswers,
          algo_choice \in AlgorithmAnswers :
          LET r == setup_phase(orch, <<choice>> \o limits \o <<algo_choice>>) IN
          /\ orch' = r.self
          /\ files' = [files EXCEPT !.names = @ \cup r.written,
                                    !.config = r.config]
          /\ AfterPhase("setup_phase", r.ok, r.read, "generate_opmode")
    /\ UNCHANGED <<prog, loop_log, idVars, accVars, valVars, selVars, scoreVars,
                   gainVars, libVars, fitVars>>

GenerateOpmode ==
    /\ prog = "tune" /\ opc = "generate_opmode"
    /\ \E outcome \in GeneratorOutcomes :
          AfterPhase("generate_opmode", generate_opmode(outcome), <<outcome>>,
                     "deploy_phase")
    /\ UNCHANGED <<prog, orch, files, loop_log, idVars, accVars, valVars, selVars,
                   scoreVars, gainVars, libVars, fitVars>>

DeployPhase ==
    /\ prog = "tune" /\ opc = "deploy_phase"
    /\ AfterPhase("deploy_phase", TRUE, <<"">>, "safety_phase")
    /\ UNCHANGED <<prog, orch, files, loop_log, idVars, accVars, valVars, selVars,
                   scoreVars, gainVars, libVars, fitVars>>

SafetyPhase ==
    /\ prog = "tune" /\ opc = "safety_phase"
    /\ \E response \in SafetyAnswers :
          AfterPhase("safety_phase", safety_phase(response), <<response>>,
                     "tuning_loop")
    /\ UNCHANGED <<prog, orch, files, loop_log, idVars, accVars, valVars, selVars,
                   scoreVars, gainVars, libVars, fitVars>>

\* one iteration of the for loop of tuning_loop
TuningIteration ==
    /\ prog = "tune" /\ opc = "tuning_loop"
    /\ orch.iteration < max_iterations
    /\ \E answer \in LoopAnswers :
          LET iteration == orch.iteration + 1
              current_gains == IF iteration = 1 THEN default_gains
                               ELSE orch.current_gains
              proposed == proposed_gains(current_gains)
              choice == lower(strip(answer))
              after == gains_after_choice(choice, current_gains, proposed)
              answers == [i \in 1..Len(loop_log) |-> loop_log[i].answer]
                           \o <<answer>>
          IN  /\ orch' = [orch EXCEPT !.iteration = iteration,
                                      !.current_gains = after]
              /\ loop_log' = Append(loop_log,
                    [iteration |-> iteration, before |-> current_gains,
                     proposed |-> proposed, answer |-> answer, after |-> after])
              /\ IF choice = "a"
                 THEN AfterPhase("tuning_loop", TRUE, answers, "finalize")
                 ELSE IF choice = "q"
                 THEN AfterPhase("tuning_loop", FALSE, answers, "finalize")
                 ELSE IF iteration = max_iterations
                 THEN AfterPhase("tuning_loop", TRUE, answers, "finalize")
                 ELSE UNCHANGED <<phases, opc, run_result>>
    /\ UNCHANGED <<prog, files, idVars, accVars, valVars, selVars, scoreVars,
                   gainVars, libVars, fitVars>>

\* finalize, and the return 0 of run
Finalize ==
    /\ prog = "tune" /\ opc = "finalize"
    /\ files' = [files EXCEPT !.names = @ \cup {"tuning_results.json"},
                              !.results =
                    [mechanism |-> orch.mechanism_config,
                     algorithm |-> orch.algorithm,
                     final_gains |-> orch.current_gains,
                     iterations |-> orch.iteration]]
    /\ phases' = Append(phases, [name |-> "finalize", ok |-> TRUE, inputs |-> <<>>])
    /\ Return(0)
    /\ UNCHANGED <<prog, orch, loop_log, idVars, accVars, valVars, selVars,
                   scoreVars, gainVars, libVars, fitVars>>

-----------------------------------------------------------------------------
(* Specification *)

ValIdle ==
    /\ vin = NoValidatorInput
    /\ vstatus = "pending"
    /\ report = NoReport

SelIdle == sin = NoSelectInput /\ sout = None

ScoreIdle == cin = NoScoreInput /\ cout = -1

GainIdle == gin = NoGainInput /\ gstatus = "pending" /\ gout = NoGainOutput

LibIdle == selected = NoSelection /\ selection_output = NoSelectionOutput

FitIdle == fitin = NoFitInput /\ fitout = NoFitOutput

TuneIdle ==
    /\ orch = TuningOrchestrator_init
    /\ opc = "setup_phase"
    /\ run_result = -1
    /\ files = NoFiles
    /\ phases = <<>>
    /\ loop_log = <<>>

IdIdle ==
    /\ pc = "load"
    /\ step_idx = -1 /\ step_size = 0
    /\ mechanism = "" /\ no_fallback = FALSE /\ model_type = None
    /\ model = NoModel /\ attempts = <<>>
    /\ exit_status = -1
    /\ file_written = FALSE /\ output_file = NoModel

InitIdentify ==
    /\ prog = "identify"
    /\ telemetry \in Telemetries
    /\ IdIdle
    /\ vmodel = NoModel /\ vresult = "pending"
    /\ ValIdle
    /\ SelIdle /\ ScoreIdle /\ GainIdle /\ LibIdle
    /\ FitIdle /\ TuneIdle

InitAccept ==
    /\ prog = "accept"
    /\ telemetry = [has_data |-> FALSE, target |-> <<>>, hold |-> 0]
    /\ IdIdle
    /\ vmodel \in AcceptInputs /\ vresult = "pending"
    /\ ValIdle
    /\ SelIdle /\ ScoreIdle /\ GainIdle /\ LibIdle
    /\ FitIdle /\ TuneIdle

InitValidate ==
    /\ prog = "validate"
    /\ telemetry = [has_data |-> FALSE, target |-> <<>>, hold |-> 0]
    /\ IdIdle
    /\ vmodel = NoModel /\ vresult = "pending"
    /\ vin \in ValidatorInputs
    /\ vstatus = "pending"
    /\ report = NoReport
    /\ SelIdle /\ ScoreIdle /\ GainIdle /\ LibIdle
    /\ FitIdle /\ TuneIdle

NoTelemetry == [has_data |-> FALSE, target |-> <<>>, hold |-> 0]

InitSelect ==
    /\ prog = "select"
    /\ telemetry = NoTelemetry
    /\ IdIdle
    /\ vmodel = NoModel /\ vresult = "pending"
    /\ ValIdle
    /\ sin \in SelectInputs /\ sout = None
    /\ ScoreIdle /\ GainIdle /\ LibIdle
    /\ FitIdle /\ TuneIdle

InitScore ==
    /\ prog = "score"
    /\ telemetry = NoTelemetry
    /\ IdIdle
    /\ vmodel = NoModel /\ vresult = "pending"
    /\ ValIdle
    /\ SelIdle
    /\ cin \in ScoreInputs /\ cout = -1
    /\ GainIdle /\ LibIdle
    /\ FitIdle /\ TuneIdle

InitGains ==
    /\ prog = "gains"
    /\ telemetry = NoTelemetry
    /\ IdIdle
    /\ vmodel = NoModel /\ vresult = "pending"
    /\ ValIdle
    /\ SelIdle /\ ScoreIdle
    /\ gin \in GainInputs /\ gstatus = "pending" /\ gout = NoGainOutput
    /\ LibIdle
    /\ FitIdle /\ TuneIdle

InitCatalogue ==
    /\ prog = "catalogue"
    /\ telemetry = NoTelemetry
    /\ IdIdle
    /\ vmodel = NoModel /\ vresult = "pending"
    /\ ValIdle
    /\ SelIdle /\ ScoreIdle /\ GainIdle
    /\ selected \in Selections /\ selection_output = NoSelectionOutput
    /\ FitIdle /\ TuneIdle

InitFit ==
    /\ prog = "fit"
    /\ telemetry = NoTelemetry
    /\ IdIdle
    /\ vmodel = NoModel /\ vresult = "pending"
    /\ ValIdle
    /\ SelIdle /\ ScoreIdle /\ GainIdle /\ LibIdle
    /\ fitin \in FitInputs /\ fitout = NoFitOutput
    /\ TuneIdle

InitTune ==
    /\ prog = "tune"
    /\ telemetry = NoTelemetry
    /\ IdIdle
    /\ vmodel = NoModel /\ vresult = "pending"
    /\ ValIdle
    /\ SelIdle /\ ScoreIdle /\ GainIdle /\ LibIdle
    /\ FitIdle
    /\ TuneIdle

Init ==
    \/ InitIdentify
    \/ InitAccept
    \/ InitValidate
    \/ InitSelect
    \/ InitScore
    \/ InitGains
    \/ InitCatalogue
    \/ InitFit
    \/ InitTune

Next ==
    \/ LoadTelemetry
    \/ FindStep
    \/ SelectAuto
    \/ SelectInteractive
    \/ SelectExplicit
    \/ IdentifyNoFallback
    \/ TryWithFallback
    \/ SaveModel
    \/ ApplyValidateModel
    \/ ValidateEmpty
    \/ ValidateSimulationFailed
    \/ ValidateSimulated
    \/ ApplySelectModelAuto
    \/ ApplyAssessConfidence
    \/ GainsLoadFailed
    \/ GainsPolePlacement
    \/ GainsZieglerNichols
    \/ GainsLambdaTuning
    \/ GenerateModelOutput
    \/ SetUpFit
    \/ SetupPhase
    \/ GenerateOpmode
    \/ DeployPhase
    \/ SafetyPhase
    \/ TuningIteration
    \/ Finalize

Spec == Init /\ [][Next]_vars

-----------------------------------------------------------------------------
(* Properties of the fallback chain (identify_params.py) *)

AttemptedTypes == [i \in 1..Len(attempts) |-> attempts[i].type]

NoAttemptAccepted ==
    \A i \in 1..Len(attempts) : attempts[i].outcome # "accepted"

\* the run of try_with_fallback is over: main saved the model or returned
ChainOver == pc \in {"save", "done"}

\* C1: a run of try_with_fallback attempts each ModelType at most once, makes
\* no attempt after first_order was attempted, and so ends after at most one
\* attempt per ModelType
C1_NoRevisit ==
    prog = "identify" =>
        /\ \A i, j \in 1..Len(attempts) :
              i # j => attempts[i].type # attempts[j].type
        /\ \A i \in 1..Len(attempts) :
              attempts[i].type = FIRST_ORDER => i = Len(attempts) /\ ChainOver
        /\ Len(attempts) <= Cardinality(ModelType)
        /\ pc = "try_with_fallback" => model_type \notin Range(AttemptedTypes)

\* a chain of three attempts that ended at first_order without a model
C1_Witness ==
    /\ prog = "identify" /\ pc = "done" /\ ~no_fallback
    /\ Len(attempts) = 3
    /\ attempts[3].type = FIRST_ORDER
    /\ NoAttemptAccepted

\* number of parameters identify_model fixes for a ModelType
ParamCount(mt) == Cardinality(Range(param_names(mt)))

\* the fallback transitions visible in a state: consecutive attempts of the
\* chain, and the validator's suggestion for a model type of its table
ChainSteps ==
    {<<attempts[i].type, attempts[i + 1].type>> : i \in 1..(Len(attempts) - 1)}

SuggestionSteps ==
    IF /\ vstatus = "report"
       /\ vin.model.model_type \in DOMAIN MODEL_SIMPLIFICATION
       /\ report.fallback_suggestion.fallback # None
    THEN {<<TagModelType(vin.model.model_type),
            TagModelType(report.fallback_suggestion.fallback)>>}
    ELSE {}

\* C2 as stated: every fallback transition strictly lowers the parameter count
C2_Original ==
    \A st \in ChainSteps \cup SuggestionSteps :
        ParamCount(st[2]) < ParamCount(st[1])

\* transitions between types with the same number of parameters
EqualCountSteps ==
    {<<ANGLE_DEPENDENT, FIRST_ORDER_GRAVITY>>,
     <<VARIABLE_INERTIA, FRICTION>>,
     <<FRICTION, SECOND_ORDER_GRAVITY>>}

\* C2 amended: no fallback transition raises the parameter count; it is
\* strictly lowered except by angle_dependent -> first_order_gravity (both
\* tables) and by variable_inertia -> friction and friction ->
\* second_order_gravity (MODEL_SIMPLIFICATION), which keep it equal
C2_NeverMoreParameters ==
    /\ \A st \in ChainSteps \cup SuggestionSteps :
          /\ ParamCount(st[2]) <= ParamCount(st[1])
          /\ ParamCount(st[2]) = ParamCount(st[1]) => st \in EqualCountSteps
    /\ \A st \in ChainSteps :
          ParamCount(st[2]) = ParamCount(st[1])
              => st = <<ANGLE_DEPENDENT, FIRST_ORDER_GRAVITY>>

\* the chain moved from angle_dependent to first_order_gravity
C2_Witness ==
    /\ prog = "identify"
    /\ <<ANGLE_DEPENDENT, FIRST_ORDER_GRAVITY>> \in ChainSteps

\* the chain of section 4.4 of the specification, by starting type
ClaimedChain(start) ==
    CASE start = VARIABLE_INERTIA ->
            <<VARIABLE_INERTIA, FRICTION, FIRST_ORDER_GRAVITY, FIRST_ORDER>>
      [] start = ANGLE_DEPENDENT ->
            <<ANGLE_DEPENDENT, FIRST_ORDER_GRAVITY, FIRST_ORDER>>
      [] start = SECOND_ORDER_GRAVITY ->
            <<SECOND_ORDER_GRAVITY, FIRST_ORDER_GRAVITY, FIRST_ORDER>>
      [] start = SECOND_ORDER -> <<SECOND_ORDER, FIRST_ORDER>>
      [] start = FIRST_ORDER_GRAVITY -> <<FIRST_ORDER_GRAVITY, FIRST_ORDER>>

ClaimedStarts == {VARIABLE_INERTIA, ANGLE_DEPENDENT, SECOND_ORDER_GRAVITY,
                  SECOND_ORDER, FIRST_ORDER_GRAVITY}

\* a finished run of the chain in which every attempt failed
ExhaustedRun ==
    /\ prog = "identify" /\ pc = "done" /\ ~no_fallback
    /\ Len(attempts) > 0
    /\ NoAttemptAccepted

\* C3 as stated: with every attempt rejected the chain follows the table of
\* section 4.4, variable_inertia -> friction -> first_order_gravity ->
\* first_order included
C3_Original ==
    (ExhaustedRun /\ attempts[1].type \in ClaimedStarts)
        => AttemptedTypes = ClaimedChain(attempts[1].type)

\* C3 amended: as stated, except that a run started at variable_inertia
\* attempts variable_inertia, first_order_gravity, first_order (friction is
\* not tried)
C3_ChainOrder ==
    (ExhaustedRun /\ attempts[1].type \in ClaimedStarts)
        => AttemptedTypes =
              IF attempts[1].type = VARIABLE_INERTIA
              THEN <<VARIABLE_INERTIA, FIRST_ORDER_GRAVITY, FIRST_ORDER>>
              ELSE ClaimedChain(attempts[1].type)

\* an exhausted run that started at variable_inertia
C3_Witness ==
    /\ ExhaustedRun
    /\ attempts[1].type = VARIABLE_INERTIA

\* C4: the chain returns the model of the first type whose fit succeeds and is
\* accepted and attempts nothing after it; a fit error and a rejection both
\* lead to the mapped simpler type; None is returned only after first_order
\* was attempted and failed
C4_FirstAcceptedWins ==
    (prog = "identify" /\ ~no_fallback) =>
        /\ \A i \in 1..Len(attempts) :
              attempts[i].outcome = "accepted" =>
                  /\ i = Len(attempts)
                  /\ ChainOver
                  /\ model.model_type = attempts[i].type
        /\ \A i \in 1..(Len(attempts) - 1) :
              /\ attempts[i].outcome \in {"raised", "rejected"}
              /\ attempts[i + 1].type = fallback_map[attempts[i].type]
        /\ (Len(attempts) > 0 /\ attempts[Len(attempts)].outcome # "accepted") =>
              /\ model = NoModel
              /\ IF attempts[Len(attempts)].type = FIRST_ORDER
                 THEN pc = "done" /\ exit_status = 1
                 ELSE /\ pc = "try_with_fallback"
                      /\ model_type = fallback_map[attempts[Len(attempts)].type]
        /\ (pc = "done" /\ exit_status = 1 /\ Len(attempts) > 0) =>
              /\ attempts[Len(attempts)].type = FIRST_ORDER
              /\ attempts[Len(attempts)].outcome # "accepted"

\* a fit error was recovered and the next type was accepted
C4_Witness ==
    /\ prog = "identify" /\ ~no_fallback /\ pc = "save"
    /\ Len(attempts) = 2
    /\ attempts[1].outcome = "raised"
    /\ attempts[2].outcome = "accepted"
    /\ model.model_type = attempts[2].type

\* the acceptance conditions as the specification states them
Acceptable(m) ==
    /\ m.fit_quality.r_squared >= 85
    /\ m.fit_quality.overall_confidence * 10 >= 7 * 12000
    /\ "tau" \in DOMAIN m.parameters => m.parameters["tau"] > 0
    /\ "omega_n" \in DOMAIN m.parameters => m.parameters["omega_n"] > 0
    /\ "zeta" \in DOMAIN m.parameters =>
          (0 <= m.parameters["zeta"] /\ m.parameters["zeta"] <= 200)

\* C5: validate_model accepts a model exactly when R^2 >= 0.85, overall
\* confidence >= 0.70 and tau > 0, omega_n > 0, 0 <= zeta <= 2 for the
\* parameters present; every model the chain returns, and every model written
\* to the output file, satisfies them
C5_AcceptanceTest ==
    /\ (prog = "accept" /\ vresult # "pending") =>
          (vresult = "accepted" <=> Acceptable(vmodel))
    /\ (prog = "identify" /\ ~no_fallback /\ model # NoModel) => Acceptable(model)
    /\ (prog = "identify" /\ Len(attempts) > 0) =>
          (attempts[Len(attempts)].outcome = "accepted" => Acceptable(model))
    /\ file_written => Acceptable(output_file)

\* a model with R^2 and confidence on their thresholds is rejected for zeta > 2
C5_Witness ==
    /\ prog = "accept" /\ vresult = "rejected"
    /\ vmodel.fit_quality.r_squared = 85
    /\ vmodel.fit_quality.overall_confidence = 8400
    /\ "zeta" \in DOMAIN vmodel.parameters
    /\ vmodel.parameters["zeta"] = 201
    /\ vmodel.parameters["omega_n"] > 0

-----------------------------------------------------------------------------
(* Properties of the validator (validate_model.py) *)

\* C6: the report has validation_passed = true exactly when validation
\* R^2 >= 0.85, normalized RMSE <= 0.15, all physics checks passed, no
\* systematic bias, no overfitting and at least 20 usable samples
C6_ValidationPassed ==
    vstatus = "report" =>
        (report.validation_passed <=>
            /\ report.metrics.R_squared >= 85
            /\ report.metrics.normalized_RMSE <= 15
            /\ report.physics_checks.all_passed
            /\ ~report.residual_analysis.systematic_bias
            /\ ~report.cross_validation.overfitting_detected
            /\ report.metrics.num_samples >= 20)

\* a report that fails on the sample count alone
C6_Witness ==
    /\ vstatus = "report"
    /\ ~report.validation_passed
    /\ report.metrics.R_squared = 100
    /\ report.metrics.normalized_RMSE = 0
    /\ report.physics_checks.all_passed
    /\ ~report.residual_analysis.systematic_bias
    /\ ~report.cross_validation.overfitting_detected
    /\ report.metrics.num_samples = 19

\* C7: a failed validation of a model whose type is not first_order carries a
\* fallback_suggestion naming the next simpler type of that type, whichever
\* condition failed
C7_FallbackAlwaysNamed ==
    (/\ vstatus = "report"
     /\ ~report.validation_passed
     /\ vin.model.model_type \in simulators \ {"first_order"})
        => report.fallback_suggestion.fallback
              = MODEL_SIMPLIFICATION[vin.model.model_type]

\* the simulation ran, so the suggestion comes from suggest_fallback
SimulationRan ==
    /\ vstatus = "report"
    /\ report.recommendations[1] # "Model simulation failed - try simpler model"

\* the first failure cause that holds, in the order physics, R^2,
\* overfitting, systematic bias ("" if none holds)
FirstCause ==
    IF ~report.physics_checks.all_passed THEN "physics checks failed"
    ELSE IF report.metrics.R_squared < 85 THEN "R2 below threshold"
    ELSE IF report.cross_validation.overfitting_detected THEN "overfitting detected"
    ELSE IF report.residual_analysis.systematic_bias
    THEN "systematic bias in residuals"
    ELSE ""

-----------------------------------------------------------------------------
(* Properties of data loading and step detection (identify_params.py) *)

\* no consecutive target difference exceeds the threshold of 10
NoStepIn(target) ==
    \A i \in 1..(Len(target) - 1) : Abs(target[i + 1] - target[i]) <= 1000

\* C9: with an empty data array, or no consecutive target difference above
\* the threshold, main returns nonzero before any model is selected or
\* fitted and without writing the output file
C9_AbortBeforeFit ==
    (prog = "identify" /\ NoStepIn(telemetry.target)) =>
        /\ pc \in {"load", "find_step", "done"}
        /\ pc = "done" => exit_status = 1
        /\ model_type = None
        /\ attempts = <<>>
        /\ model = NoModel
        /\ ~file_written

\* main returned 1 on a non-empty telemetry whose largest change equals the
\* threshold
C9_Witness ==
    /\ prog = "identify" /\ pc = "done" /\ exit_status = 1
    /\ telemetry.target = <<0, 1000, 0>>
    /\ attempts = <<>>

\* C10: find_step_response returns the smallest index whose target change
\* exceeds the threshold in magnitude, with the signed change at that index;
\* it raises exactly when there is no such index
C10_FirstStep ==
    (prog = "identify" /\ pc \notin {"load", "find_step"}) =>
        IF step_idx >= 0
        THEN /\ step_idx + 2 <= Len(telemetry.target)
             /\ step_size = telemetry.target[step_idx + 2]
                              - telemetry.target[step_idx + 1]
             /\ Abs(step_size) > 1000
             /\ \A j \in 1..step_idx :
                   Abs(telemetry.target[j + 1] - telemetry.target[j]) <= 1000
        ELSE /\ NoStepIn(telemetry.target)
             /\ pc = "done" /\ exit_status = 1

\* the step is found at the second change, after a change equal to the
\* threshold
C10_Witness ==
    /\ prog = "identify" /\ pc = "select"
    /\ telemetry.target = <<0, 1000, 2000 + 100>>
    /\ step_idx = 1 /\ step_size = 1100

-----------------------------------------------------------------------------
(* Claims C11 - C20 *)

\* the parameters of a model file would pass the bound tests of the
\* identifier's acceptance test
GainModelWithinBounds(m) ==
    /\ "tau" \in DOMAIN m.parameters => RLess(RInt(0), m.parameters["tau"])
    /\ "omega_n" \in DOMAIN m.parameters => RLess(RInt(0), m.parameters["omega_n"])
    /\ "zeta" \in DOMAIN m.parameters =>
          /\ RLeq(RInt(0), m.parameters["zeta"])
          /\ RLeq(m.parameters["zeta"], RInt(2))

\* C11: the stages are strictly ordered: a fit is attempted only after a step
\* was found, an identified model is written only after a fit that passed
\* the acceptance test, and gains are synthesized only from a model that
\* passed validation / acceptance.
C11_StagesOrdered ==
    /\ (prog = "identify" /\ attempts # <<>>) => step_idx >= 0
    /\ (prog = "identify" /\ file_written) =>
          /\ attempts # <<>>
          /\ attempts[Len(attempts)].outcome = "accepted"
    /\ (prog = "gains" /\ gstatus = "written") =>
          /\ gin.validation_passed
          /\ GainModelWithinBounds(gin.model)

\* the overshoot select_model_auto detects is above 5%: at least 10 samples
\* from the step on and a peak more than 5% of the step beyond the target
DetectedOvershootAboveFivePercent(args) ==
    LET peak == IF args.step_size > 0
                THEN args.series.max_pos - args.series.target
                ELSE args.series.target - args.series.min_pos
    IN  /\ args.series.pos_len >= 10
        /\ peak * 100 > 5 * Abs(args.step_size)

\* C12: select_model_auto returns second_order (flywheel, turret) or
\* second_order_gravity (elevator, arm) when the detected overshoot is above
\* 5% and the noise level is at most 1.0, and first_order / first_order_gravity
\* otherwise.
C12_AutoSelection ==
    (prog = "select" /\ sout # None) =>
        LET second == /\ DetectedOvershootAboveFivePercent(sin)
                      /\ sin.series.noise_std <= 100
        IN  IF sin.mechanism \in {"flywheel", "turret"}
            THEN sout = IF second THEN SECOND_ORDER ELSE FIRST_ORDER
            ELSE sout = IF second THEN SECOND_ORDER_GRAVITY ELSE FIRST_ORDER_GRAVITY

\* an elevator response with 15% overshoot and low noise was given
\* second_order_gravity
C12_Witness ==
    /\ prog = "select" /\ sout = SECOND_ORDER_GRAVITY
    /\ sin.mechanism = "elevator"
    /\ sin.step_size = 1100
    /\ sin.series.max_pos - sin.series.target = 165
    /\ sin.series.noise_std = 100

\* C13: for every method and every model with nonzero K and tau > 0 the
\* gains written satisfy kP >= 0 and kD >= 0.
C13_GainsNonNegative ==
    (/\ prog = "gains" /\ gstatus = "written"
     /\ "K" \in DOMAIN gin.model.parameters
     /\ ~RZero(gin.model.parameters["K"])
     /\ "tau" \in DOMAIN gin.model.parameters
     /\ RLess(RInt(0), gin.model.parameters["tau"])
     /\ gin.method = "lambda-tuning" => RLess(RInt(0), gin.lambda_factor)) =>
        /\ gout.calculated_gains.kP >= 0
        /\ gout.calculated_gains.kD >= 0

\* C14: for every method a model file whose parameters lack K or tau is
\* rejected with an error; no gains are written from a substituted default.
C14_MissingParameterRejected ==
    (/\ prog = "gains" /\ gin.file = "ok" /\ gstatus # "pending"
     /\ \/ "K" \notin DOMAIN gin.model.parameters
        \/ "tau" \notin DOMAIN gin.model.parameters) =>
        gstatus = "raised"

\* C15: the overall confidence assess_confidence returns lies in [0, 1]
\* (0 .. 12000 in units of 1/12000), for arbitrary arguments and for every
\* model the identifier builds.
C15_ConfidenceInUnitInterval ==
    /\ (prog = "score" /\ cout # -1) => (0 <= cout /\ cout <= 12000)
    /\ (prog = "identify" /\ model # NoModel) =>
          /\ 0 <= model.fit_quality.overall_confidence
          /\ model.fit_quality.overall_confidence <= 12000

\* assess_confidence was applied to an R^2 above 0.95 and intervals with
\* lower > upper, and to an R^2 below 0 with two violated bounds
C15_Witness ==
    /\ prog = "score" /\ cout # -1
    /\ \/ /\ cin.fit_quality.r_squared = 120
          /\ cin.confidence_intervals["K"][1] > cin.confidence_intervals["K"][2]
          /\ cout = 12000
       \/ /\ cin.fit_quality.r_squared = -50
          /\ physics_violations(cin.params) = 2

\* C16: pole placement with overshoot 0% and rise time 1.0 s reports a
\* desired damping ratio of 1.0 and kD >= 0, whatever the model type.
C16_CriticallyDamped ==
    (/\ prog = "gains" /\ gstatus = "written"
     /\ gin.method = "pole-placement"
     /\ gin.overshoot = RInt(0) /\ gin.rise_time = RInt(1)) =>
        /\ gout.design_parameters.desired_zeta = RInt(1)
        /\ gout.calculated_gains.kD >= 0

\* C17: lambda tuning returns a result for every model and every lambda
\* factor, with predicted overshoot 0.0 and kD = 0.
C17_LambdaNoOvershoot ==
    (/\ prog = "gains" /\ gin.file = "ok" /\ gstatus # "pending"
     /\ gin.method = "lambda-tuning") =>
        /\ gstatus = "written"
        /\ gout.predicted_performance.overshoot_percent = 0
        /\ gout.calculated_gains.kD = 0

\* C18: the thresholds R^2 >= 0.85, confidence >= 0.70, normalized RMSE <=
\* 0.15 and 20 samples are the ones applied by the identifier's acceptance
\* test, recorded in the validator's acceptance_criteria and reported in the
\* selector's validation_requirements.
C18_SameThresholds ==
    /\ (prog = "accept" /\ vresult = "accepted") =>
          /\ vmodel.fit_quality.r_squared >= 85
          /\ vmodel.fit_quality.overall_confidence >= 8400
    /\ (prog = "validate" /\ vstatus = "report"
           /\ report.acceptance_criteria # <<>>) =>
          report.acceptance_criteria =
              [R_squared_threshold |-> 85, confidence_threshold |-> 70,
               max_normalized_RMSE |-> 15, min_data_points |-> 20]
    /\ (prog = "catalogue" /\ selection_output # NoSelectionOutput) =>
          /\ selection_output.validation_requirements.min_r_squared = 85
          /\ selection_output.validation_requirements.min_confidence = 70

\* C19: the catalogue holds exactly the 7 structures of ModelType, each with
\* the parameter names the identifier fits for it.
C19_CatalogueMatchesIdentifier ==
    (prog = "catalogue" /\ selection_output # NoSelectionOutput) =>
        /\ DOMAIN MODEL_LIBRARY = ModelType
        /\ Range(selection_output.selected_model.parameters) =
              Range(param_names(selection_output.selected_model.model_type))

\* the kg of the model file, 0 if it has none
ModelKg == params_get(gin.model.parameters, "kg", RInt(0))

\* C20 as stated: the kG written equals the model's kg (0 without kg).
C20_Original ==
    (prog = "gains" /\ gstatus = "written") =>
        Rat(gout.calculated_gains.kG, 1000000) = ModelKg

\* C20: the kG written is the model's kg (0 without kg) rounded to 6
\* decimals, whatever the method, the other parameters and the targets
\* (kg in ten-millionths is within 5 of ten times kG in millionths).
C20_FeedforwardPassThrough ==
    (prog = "gains" /\ gstatus = "written") =>
        LET kg7 == ModelKg[1] * (10000000 \div ModelKg[2])
        IN  /\ 10000000 % ModelKg[2] = 0
            /\ Abs(10 * gout.calculated_gains.kG - kg7) <= 5

\* lambda tuning wrote kG = 0.123457 for a model with kg = 0.1234567
C20_Witness ==
    /\ prog = "gains" /\ gstatus = "written"
    /\ gin.method = "lambda-tuning"
    /\ ModelKg = Rat(1234567, 10000000)
    /\ gout.calculated_gains.kG = 123457

-----------------------------------------------------------------------------
(* Hand-over of an identified model between the programs *)

\* the simulator simulate_model dispatches a tag to (None: ValueError,
\* "Unknown model type")
simulator_for(tag) == IF tag \in simulators THEN tag ELSE None

\* the simulators table key of the structure a ModelType denotes
SimulatorOfType(mt) ==
    CASE mt = FIRST_ORDER          -> "first_order"
      [] mt = FIRST_ORDER_GRAVITY  -> "first_order_gravity"
      [] mt = SECOND_ORDER         -> "second_order"
      [] mt = SECOND_ORDER_GRAVITY -> "second_order_gravity"
      [] mt = ANGLE_DEPENDENT      -> "angle_dependent_gravity"
      [] mt = FRICTION             -> "friction"
      [] mt = VARIABLE_INERTIA     -> "variable_inertia"

\* the plant branch of the order of a ModelType
BranchOfType(mt) ==
    CASE mt \in {FIRST_ORDER, FIRST_ORDER_GRAVITY}   -> "first_order"
      [] mt \in {SECOND_ORDER, SECOND_ORDER_GRAVITY} -> "second_order"
      [] OTHER                                       -> "simplified"

\* C21: the model_type tag of every identified-model file the identification
\* program writes is dispatched by simulate_model to the simulator of the
\* structure that was identified, and routed by pole placement to the plant
\* branch of that order
C21_TagsUnderstood ==
    (prog = "identify" /\ file_written) =>
        /\ simulator_for(output_file.model_type)
              = SimulatorOfType(output_file.model_type)
        /\ pole_placement_branch(output_file.model_type)
              = BranchOfType(output_file.model_type)

\* the ModelType a table entry names (None where the table has no successor)
SuccessorType(tag) == IF tag = None THEN None ELSE TagModelType(tag)

\* C22: for the model type T of every selection output, the fallback the
\* selector recommends, the successor of T in the fallback chain's
\* fallback_map and the successor of T in the validator's
\* MODEL_SIMPLIFICATION are the same type, and first_order has none
C22_SameSuccessor ==
    (prog = "catalogue" /\ selection_output # NoSelectionOutput) =>
        LET T == TagModelType(selected.model)
        IN  /\ SuccessorType(selection_output.fallback_model) = fallback_map[T]
            /\ SuccessorType(simplification_get(SimulatorOfType(T), None))
                  = fallback_map[T]
            /\ T = FIRST_ORDER => selection_output.fallback_model = None

-----------------------------------------------------------------------------
(* Output file and exit status of identify_params.py *)

LastAttempt == attempts[Len(attempts)]

\* C23: the identification program writes the output file only for the model
\* its last attempt accepted, in both modes; after a failed fit, a rejected
\* model or an exhausted chain there is no file and the exit status is 1; the
\* exit status is 0 exactly when the file was written
C23_FileOnlyWhenAccepted ==
    prog = "identify" =>
        /\ file_written =>
              /\ Len(attempts) > 0
              /\ LastAttempt.outcome = "accepted"
              /\ output_file = model
              /\ output_file.model_type = LastAttempt.type
              /\ Acceptable(output_file)
        /\ (pc = "done" /\ Len(attempts) > 0
               /\ LastAttempt.outcome \in {"raised", "rejected"}) =>
              ~file_written /\ exit_status = 1
        /\ (exit_status = 0) <=> file_written
        /\ pc = "done" <=> exit_status \in {0, 1}

\* the whole chain was tried, its last model rejected: no file, exit status 1
C23_Witness ==
    /\ prog = "identify" /\ ~no_fallback /\ pc = "done"
    /\ Len(attempts) >= 2
    /\ LastAttempt.outcome = "rejected"
    /\ ~file_written /\ exit_status = 1

-----------------------------------------------------------------------------
(* Error handling of validate_model.py *)

\* C24: the validator returns a report for every input and never raises;
\* when the simulation cannot run, or the telemetry has no samples, the
\* report has validation_passed = false and at least one recommendation
C24_AlwaysAReport ==
    prog = "validate" =>
        /\ vstatus # "raised"
        /\ (vstatus = "report"
              /\ (\/ vin.telemetry.data_len = 0
                  \/ simulate_model_raises(vin.model.model_type,
                                           vin.telemetry.has_angle))) =>
              /\ ~report.validation_passed
              /\ Len(report.recommendations) >= 1

-----------------------------------------------------------------------------
(* Physics checks of validate_model.py *)

\* parameters of a model file whose value lies outside their range
OutOfRangeParams(m) ==
    {n \in Range(m.names) \cap DOMAIN PHYSICS_LIMITS :
        m.parameters[n] < PHYSICS_LIMITS[n][1] \/ m.parameters[n] > PHYSICS_LIMITS[n][2]}

\* parameters of a model file whose confidence is below the threshold
LowConfidenceParams(m) ==
    {n \in Range(m.names) \cap DOMAIN m.confidence :
        m.confidence[n] < CONFIDENCE_THRESHOLD}

\* number of warnings of one kind about one parameter
WarningCount(warnings, n, kind) ==
    Cardinality({i \in 1..Len(warnings) :
                    warnings[i] = [param |-> n, kind |-> kind]})

\* C25: in every report of a simulated model, every parameter of the model
\* has a range it was tested against, all_passed is false exactly when some
\* parameter is out of range or has a confidence below the threshold, and
\* each such violation is listed as exactly one warning
C25_PhysicsChecks ==
    (vstatus = "report" /\ report.acceptance_criteria # <<>>) =>
        LET m == vin.model
            checks == report.physics_checks
        IN  /\ Range(m.names) \subseteq DOMAIN PHYSICS_LIMITS
            /\ ~checks.all_passed <=>
                  (OutOfRangeParams(m) # {} \/ LowConfidenceParams(m) # {})
            /\ \A n \in OutOfRangeParams(m) :
                  WarningCount(checks.warnings, n, "outside physical range") = 1
            /\ \A n \in LowConfidenceParams(m) :
                  WarningCount(checks.warnings, n, "low confidence") = 1

-----------------------------------------------------------------------------
(* Cross-validation of validate_model.py *)

\* C26: cross-validation is enabled in a report only when it was requested
\* and the telemetry has at least 20 samples; its train set is the first
\* floor(0.7 n) samples; overfitting is flagged only when train R^2 exceeds
\* test R^2 by more than 0.15, and always then when both were computed;
\* without cross-validation overfitting_detected is false
C26_CrossValidation ==
    (vstatus = "report" /\ report.acceptance_criteria # <<>>) =>
        LET cv == report.cross_validation
            n == vin.telemetry.data_len
        IN  /\ cv.enabled => (vin.enable_cross_validation /\ n >= 20)
            /\ cv.enabled => split_idx(n) = (7 * n) \div 10
            /\ cv.overfitting_detected =>
                  (cv.enabled /\ cv.train_R_squared - cv.test_R_squared > 15)
            /\ (cv.enabled /\ cv.test_R_squared > 0
                  /\ cv.train_R_squared - cv.test_R_squared > 15) =>
                  cv.overfitting_detected
            /\ (~vin.enable_cross_validation \/ n < 20) => ~cv.overfitting_detected

-----------------------------------------------------------------------------
(* Confidence intervals of an IdentifiedModel *)

\* C28: every IdentifiedModel has one confidence interval per parameter, and
\* each interval has lower <= parameter value <= upper, for values of either
\* sign, the feedforward kg included
C28_IntervalsContainValues ==
    (prog = "identify" /\ model # NoModel) =>
        /\ DOMAIN model.confidence_intervals = DOMAIN model.parameters
        /\ \A n \in DOMAIN model.parameters :
              /\ model.confidence_intervals[n][1] <= model.parameters[n]
              /\ model.parameters[n] <= model.confidence_intervals[n][2]

-----------------------------------------------------------------------------
(* Solver bounds of the first- and second-order fits *)

\* C27: for a nonzero step size K_guess of either sign the bounds given to the
\* solver for K are a valid interval, lower < K_guess < upper, spanning
\* K_guess / 2 to 2 K_guess, and the initial guess is K_guess; for the
\* first-order fit the tau bounds are [0.01, 10] and the tau guess is 1
C27_KBoundsValid ==
    (prog = "fit" /\ fitout # NoFitOutput
       /\ fitin.final_value # fitin.pos_initial) =>
        LET K_guess == (fitin.final_value - fitin.pos_initial) * 100
            setup == fitout.setup
        IN  /\ setup.p0[1] = K_guess
            /\ setup.lower[1] < K_guess /\ K_guess < setup.upper[1]
            /\ {setup.lower[1], setup.upper[1]} = {K_guess \div 2, 2 * K_guess}
            /\ fitin.order = "first" =>
                  /\ setup.lower[2] = 1 /\ setup.upper[2] = 1000
                  /\ setup.p0[2] = 100

-----------------------------------------------------------------------------
(* Properties of TuningOrchestrator (tuning_orchestrator.py) *)

PhaseOrder ==
    <<"setup_phase", "generate_opmode", "deploy_phase", "safety_phase",
      "tuning_loop", "finalize">>

\* answers that are one of the menu choices 1-4, integers, 'yes'
IsMenuChoice(text) == text \in {"1", "2", "3", "4", " 2 "}

IsIntegerText(text) == text \in {"0", "100", "500", "1000", "-5", " 50 "}

IsYes(text) == text \in {"yes", " YES "}

\* whether a phase that read these answers is to succeed
PhaseExpectedOk(name, inputs) ==
    CASE name = "setup_phase" ->
            /\ Len(inputs) = 6
            /\ IsMenuChoice(inputs[1])
            /\ \A j \in 2..5 : IsIntegerText(inputs[j])
            /\ IsMenuChoice(inputs[6])
      [] name = "generate_opmode" -> inputs = <<"0">>
      [] name = "safety_phase"    -> IsYes(inputs[1])
      [] name = "tuning_loop"     -> inputs[Len(inputs)] # "q"
      [] OTHER                    -> TRUE

\* C29: run executes the phases in the order setup, OpMode generation,
\* deployment, safety check, tuning loop, finalization; a phase fails exactly
\* on an invalid menu choice or non-integer limit, a generator error, a safety
\* answer other than yes, or the abort 'q'; after a failed phase no phase runs
\* and run returns 1; the results file exists only once finalization ran, and
\* run returns 0 only after finalization
C29_PhasesInOrder ==
    prog = "tune" =>
        /\ Len(phases) <= Len(PhaseOrder)
        /\ \A i \in 1..Len(phases) :
              /\ phases[i].name = PhaseOrder[i]
              /\ phases[i].ok <=> PhaseExpectedOk(phases[i].name, phases[i].inputs)
              /\ i < Len(phases) => phases[i].ok
        /\ (Len(phases) > 0 /\ ~phases[Len(phases)].ok) =>
              (opc = "returned" /\ run_result = 1)
        /\ opc # "returned" =>
              (run_result = -1 /\ opc = PhaseOrder[Len(phases) + 1])
        /\ opc = "returned" => run_result \in {0, 1}
        /\ "tuning_results.json" \in files.names =>
              (Len(phases) = 6 /\ phases[6].name = "finalize")
        /\ run_result = 0 =>
              (Len(phases) = 6 /\ phases[6].ok
                 /\ "tuning_results.json" \in files.names)

\* the safety check was answered 'no' after three successful phases: run
\* returned 1 without tuning, and there is no results file
C29_Witness ==
    /\ prog = "tune" /\ opc = "returned" /\ run_result = 1
    /\ Len(phases) = 4
    /\ phases[4].name = "safety_phase" /\ phases[4].inputs = <<"no">>
    /\ loop_log = <<>>
    /\ files.names = {"mechanism_config.json"}

\* the gains the first iteration is to start from
StartGains == [kP |-> <<1, 1000>>, kI |-> <<0, 1>>, kD |-> <<0, 1>>, kG |-> <<0, 1>>]

\* C30: current_gains starts at kP = 0.001, kI = kD = kG = 0; an iteration
\* changes it, to that iteration's proposed gains, exactly when the choice is
\* 'c' or unrecognized, and leaves it unchanged on 'r', 'a' (and 'q'); the
\* loop makes at most max_iterations = 5 iterations; the final gains written
\* by finalize are current_gains at loop exit
C30_GainsFrame ==
    prog = "tune" =>
        /\ Len(loop_log) <= 5
        /\ orch.iteration = Len(loop_log)
        /\ Len(loop_log) >= 1 =>
              /\ loop_log[1].before = StartGains
              /\ orch.current_gains = loop_log[Len(loop_log)].after
        /\ \A i \in 1..Len(loop_log) :
              LET e == loop_log[i] IN
              /\ e.iteration = i
              /\ i > 1 => e.before = loop_log[i - 1].after
              /\ e.proposed # e.before
              /\ IF e.answer \in {"c", "x"} THEN e.after = e.proposed
                 ELSE e.after = e.before
        /\ "tuning_results.json" \in files.names =>
              /\ Len(loop_log) >= 1
              /\ files.results.final_gains = loop_log[Len(loop_log)].after
              /\ files.results.iterations = Len(loop_log)

\* proposed gains were applied with 'c', kept over an 'r', accepted with 'a'
\* and written by finalize
C30_Witness ==
    /\ prog = "tune" /\ run_result = 0
    /\ Len(loop_log) = 3
    /\ loop_log[1].answer = "c" /\ loop_log[2].answer = "r"
    /\ loop_log[3].answer = " A"
    /\ files.results.final_gains =
          [kP |-> <<3, 2000>>, kI |-> <<0, 1>>, kD |-> <<1, 10000>>,
           kG |-> <<1, 20>>]

====
